---- MODULE Spec2Model ----
(***************************************************************************)
(* Library Management System: the book REST API.                           *)
(*                                                                         *)
(* The store is the MongoDB collection of Book documents.  Every action is *)
(* one HTTP request handled from the first middleware of its route down to *)
(* the response: validation middleware, controller, Mongoose hooks, store. *)
(*                                                                         *)
(* Strings are sequences of one-character strings, so that trimming, case  *)
(* folding and regular-expression matching are computed, not assumed.      *)
(* A JavaScript object is a function whose DOMAIN is the set of keys it    *)
(* has; a key that is undefined is a key outside the DOMAIN.               *)
(***************************************************************************)
EXTENDS Integers, Sequences, FiniteSets, TLC

VARIABLES
    books,      \* the collection: _id -> stored document
    nextId,     \* the next ObjectId the driver hands out
    clock,      \* Date.now() as a logical clock
    writes,     \* requests that wrote to an existing document so far
    req,        \* the request being answered
    resp,       \* the response sent for it
    inflight,   \* a request of a second client, between its two store calls
    limiter,    \* the rate limiter's store for the client's IP, and the time
    pipeline    \* a request on its way through the middleware chain

vars == <<books, nextId, clock, writes, req, resp, inflight, limiter, pipeline>>

(***************************************************************************)
(* Bounds of the model.                                                    *)
(***************************************************************************)
MaxBooks == 3       \* documents ever inserted in one behaviour
MaxWrites == 2      \* update / tag / toggle / delete requests in one behaviour

(***************************************************************************)
(* Program constants.                                                      *)
(***************************************************************************)
CurrentYear == 2026         \* new Date().getFullYear()
MinYear == 1000
MaxListLimit == 100
MaxGenreLimit == 50
DefaultPage == 1
DefaultLimit == 10
MaxTagLen == 30
MaxRating == 5
GeneralMax == 100           \* generalLimiter: requests per window
GeneralWindowMinutes == 15  \* generalLimiter: the window
CreateMax == 5              \* createLimiter: requests per one-minute window

NULL == -1                  \* JSON null in a numeric field of a response

(***************************************************************************)
(* Strings.                                                                *)
(***************************************************************************)
UpperChars == <<"A","B","C","D","E","F","G","H","I","J","K","L","M","N","O","P","Q","R","S","T","U","V","W","X","Y","Z">>
LowerChars == <<"a","b","c","d","e","f","g","h","i","j","k","l","m","n","o","p","q","r","s","t","u","v","w","x","y","z">>

IsUpperChar(c) == \E i \in 1..Len(UpperChars) : UpperChars[i] = c
IsLowerChar(c) == \E i \in 1..Len(LowerChars) : LowerChars[i] = c

\* String.prototype.toLowerCase, one character
toLowerChar(c) ==
    IF IsUpperChar(c)
    THEN LowerChars[CHOOSE i \in 1..Len(UpperChars) : UpperChars[i] = c]
    ELSE c

\* String.prototype.toUpperCase, one character
toUpperChar(c) ==
    IF IsLowerChar(c)
    THEN UpperChars[CHOOSE i \in 1..Len(LowerChars) : LowerChars[i] = c]
    ELSE c

toLowerCase(s) == [i \in 1..Len(s) |-> toLowerChar(s[i])]

\* String.prototype.trim: drops leading and trailing white space
trim(s) ==
    LET nonBlank == {i \in 1..Len(s) : s[i] # " "}
    IN  IF nonBlank = {} THEN <<>>
        ELSE LET lo == CHOOSE i \in nonBlank : \A j \in nonBlank : i <= j
                 hi == CHOOSE i \in nonBlank : \A j \in nonBlank : i >= j
             IN  SubSeq(s, lo, hi)

\* s.includes(t): t occurs in s as a contiguous substring, letter for letter
includes(s, t) ==
    \E i \in 0..(Len(s) - Len(t)) : \A j \in 1..Len(t) : s[i + j] = t[j]

\* array.includes(x)
arrayIncludes(arr, x) == \E i \in 1..Len(arr) : arr[i] = x

(***************************************************************************)
(* new RegExp(pattern, 'i').test(s), for patterns over letters, digits,    *)
(* space, '-' and the metacharacter '.', which matches any one character.  *)
(* The match is unanchored.                                                *)
(***************************************************************************)
regexCharMatches(p, c) == p = "." \/ toLowerChar(p) = toLowerChar(c)

regexTest(pattern, s) ==
    \E i \in 0..(Len(s) - Len(pattern)) :
        \A j \in 1..Len(pattern) : regexCharMatches(pattern[j], s[i + j])

(***************************************************************************)
(* The ISBN pattern of the schema and of the Joi schemas:                  *)
(*   /^(?:\d{9}[\dX]|\d{13}|\d{1,5}-\d{1,7}-\d{1,7}-[\dX]                  *)
(*       |\d{1,5}-\d{1,7}-\d{1,7}-\d{1,7}-\d{1,7})$/                         *)
(***************************************************************************)
IsDigit(c) == c \in {"0","1","2","3","4","5","6","7","8","9"}

\* \d{lo,hi}: between lo and hi characters, all of them digits
Digits(s, lo, hi) ==
    /\ Len(s) >= lo /\ Len(s) <= hi
    /\ \A i \in 1..Len(s) : IsDigit(s[i])

\* [\dX]: one character, a digit or X
CheckCharacter(s) == Len(s) = 1 /\ (IsDigit(s[1]) \/ s[1] = "X")

RECURSIVE split(_, _)
\* s.split(sep): the pieces of s between the occurrences of the character sep
split(s, sep) ==
    IF \A i \in 1..Len(s) : s[i] # sep THEN <<s>>
    ELSE LET k == CHOOSE i \in 1..Len(s) :
                      s[i] = sep /\ \A j \in 1..(i - 1) : s[j] # sep
         IN  <<SubSeq(s, 1, k - 1)>> \o split(SubSeq(s, k + 1, Len(s)), sep)

\* isbn10Pattern.test(v) || isbn13Pattern.test(v)
IsbnPatternTest(v) ==
    LET g == split(v, "-")
    IN  \/ Len(g) = 1 /\ Len(v) = 10 /\ Digits(SubSeq(v, 1, 9), 9, 9)
                      /\ CheckCharacter(SubSeq(v, 10, 10))
        \/ Len(g) = 1 /\ Digits(v, 13, 13)
        \/ Len(g) = 4 /\ Digits(g[1], 1, 5) /\ Digits(g[2], 1, 7)
                      /\ Digits(g[3], 1, 7) /\ CheckCharacter(g[4])
        \/ Len(g) = 5 /\ Digits(g[1], 1, 5)
                      /\ \A i \in 2..5 : Digits(g[i], 1, 7)

(***************************************************************************)
(* The genre enum of the schema.                                           *)
(***************************************************************************)
GenreEnum == {
    <<"F","i","c","t","i","o","n">>,
    <<"N","o","n","-","F","i","c","t","i","o","n">>,
    <<"M","y","s","t","e","r","y">>,
    <<"R","o","m","a","n","c","e">>,
    <<"S","c","i","e","n","c","e"," ","F","i","c","t","i","o","n">>,
    <<"F","a","n","t","a","s","y">>,
    <<"B","i","o","g","r","a","p","h","y">>,
    <<"H","i","s","t","o","r","y">>,
    <<"S","c","i","e","n","c","e">>,
    <<"T","e","c","h","n","o","l","o","g","y">>,
    <<"P","h","i","l","o","s","o","p","h","y">>,
    <<"R","e","l","i","g","i","o","n">>,
    <<"S","e","l","f","-","H","e","l","p">>,
    <<"B","u","s","i","n","e","s","s">>,
    <<"E","d","u","c","a","t","i","o","n">>,
    <<"C","h","i","l","d","r","e","n">>,
    <<"Y","o","u","n","g"," ","A","d","u","l","t">>,
    <<"C","l","a","s","s","i","c"," ","L","i","t","e","r","a","t","u","r","e">>,
    <<"P","o","e","t","r","y">>,
    <<"D","r","a","m","a">>,
    <<"C","o","o","k","b","o","o","k">>,
    <<"T","r","a","v","e","l">>,
    <<"A","r","t">>,
    <<"M","u","s","i","c">>,
    <<"S","p","o","r","t","s">>,
    <<"H","e","a","l","t","h">>,
    <<"P","o","l","i","t","i","c","s">>,
    <<"E","c","o","n","o","m","i","c","s">>,
    <<"P","s","y","c","h","o","l","o","g","y">>,
    <<"S","o","c","i","o","l","o","g","y">>,
    <<"O","t","h","e","r">>
}

(***************************************************************************)
(* Objects.                                                                *)
(***************************************************************************)
Has(o, k) == k \in DOMAIN o

\* Object.assign(target, source) / the merge of $set into a document
Assign(target, source) == source @@ target

\* o without the key k
Without(o, k) == [x \in (DOMAIN o) \ {k} |-> o[x]]

\* JavaScript truthiness of a number and of a string
TruthyNum(n) == n # 0
TruthyStr(s) == Len(s) > 0

(***************************************************************************)
(* Arrays.                                                                 *)
(***************************************************************************)
RECURSIVE FilterNonBlank(_)
\* tags.filter(tag => tag.trim() !== '')
FilterNonBlank(arr) ==
    IF arr = <<>> THEN <<>>
    ELSE IF trim(Head(arr)) # <<>>
         THEN <<Head(arr)>> \o FilterNonBlank(Tail(arr))
         ELSE FilterNonBlank(Tail(arr))

\* tags.map(tag => tag.trim().toLowerCase())
MapTrimLower(arr) == [i \in 1..Len(arr) |-> toLowerCase(trim(arr[i]))]

\* tags.map(trim): the schema's trim setter on every element
MapTrim(arr) == [i \in 1..Len(arr) |-> trim(arr[i])]

RECURSIVE Dedupe(_)
\* [...new Set(arr)]: the first occurrence of every element, in order
Dedupe(arr) ==
    IF arr = <<>> THEN <<>>
    ELSE LET front == Dedupe(SubSeq(arr, 1, Len(arr) - 1))
             last  == arr[Len(arr)]
         IN  IF arrayIncludes(front, last) THEN front ELSE Append(front, last)

RECURSIVE FilterNotEqual(_, _)
\* tags.filter(t => t !== x)
FilterNotEqual(arr, x) ==
    IF arr = <<>> THEN <<>>
    ELSE IF Head(arr) # x
         THEN <<Head(arr)>> \o FilterNotEqual(Tail(arr), x)
         ELSE FilterNotEqual(Tail(arr), x)

(***************************************************************************)
(* The Book schema (models/Book.js).                                       *)
(***************************************************************************)
StringPaths == {"title", "author", "isbn", "genre", "description",
                "publisher", "language"}

\* Casting a plain object to the schema: the trim setters of the string
\* paths and of the tags elements.
CastToSchema(o) ==
    [k \in DOMAIN o |->
        IF k \in StringPaths THEN trim(o[k])
        ELSE IF k = "tags" THEN MapTrim(o[k])
        ELSE o[k]]

\* The schema defaults a new document gets for the paths it does not set.
SchemaDefaults ==
    [available |-> TRUE,
     language  |-> <<"E","n","g","l","i","s","h">>,
     tags      |-> <<>>,
     addedBy   |-> <<"s","y","s","t","e","m">>]

\* The paths of a document that fail the schema's validators.
SchemaErrors(doc) ==
      {k \in {"title", "author", "year"} : ~Has(doc, k)}
    \cup {k \in {"title", "author"} : Has(doc, k) /\ Len(doc[k]) < 1}
    \cup (IF Has(doc, "title") /\ Len(doc.title) > 200 THEN {"title"} ELSE {})
    \cup (IF Has(doc, "author") /\ Len(doc.author) > 100 THEN {"author"} ELSE {})
    \cup (IF Has(doc, "year") /\ (doc.year < MinYear \/ doc.year > CurrentYear)
          THEN {"year"} ELSE {})
    \cup (IF Has(doc, "isbn") /\ TruthyStr(doc.isbn) /\ ~IsbnPatternTest(doc.isbn)
          THEN {"isbn"} ELSE {})
    \cup (IF Has(doc, "genre") /\ doc.genre \notin GenreEnum
          THEN {"genre"} ELSE {})
    \cup (IF Has(doc, "description") /\ Len(doc.description) > 1000
          THEN {"description"} ELSE {})
    \cup (IF Has(doc, "pages") /\ (doc.pages < 1 \/ doc.pages > 10000)
          THEN {"pages"} ELSE {})
    \cup (IF Has(doc, "rating") /\ (doc.rating < 0 \/ doc.rating > MaxRating)
          THEN {"rating"} ELSE {})
    \cup (IF Has(doc, "tags") /\ \E i \in 1..Len(doc.tags) : Len(doc.tags[i]) > MaxTagLen
          THEN {"tags"} ELSE {})

\* genre.charAt(0).toUpperCase() + genre.slice(1).toLowerCase()
CapitalizeGenre(g) ==
    <<toUpperChar(g[1])>> \o toLowerCase(SubSeq(g, 2, Len(g)))

\* the tags clean-up of pre('save')
CleanTags(tags) == Dedupe(MapTrimLower(FilterNonBlank(tags)))

\* a save hook that also clears the page count
PreSaveClearingPages(doc) ==
    IF Has(doc, "pages") THEN [doc EXCEPT !["pages"] = 0] ELSE doc

\* bookSchema.pre('save')
PreSave(doc) ==
    LET d1 == IF Has(doc, "genre") /\ TruthyStr(doc.genre)
              THEN [doc EXCEPT !["genre"] = CapitalizeGenre(doc.genre)]
              ELSE doc
    IN  IF Has(d1, "tags") /\ Len(d1.tags) > 0
        THEN [d1 EXCEPT !["tags"] = CleanTags(d1.tags)]
        ELSE d1

\* document.save(): the validation hook first, then pre('save'), then the write.
\* The result is the set of validation errors and the document as written.
SaveErrors(doc) == SchemaErrors(doc)
Saved(doc) == PreSave(doc)

\* the timestamps a write sets: lastModified (pre('save') and
\* pre('findOneAndUpdate')) and updatedAt (the timestamps option)
Timestamps == {"lastModified", "updatedAt"}
Touched(doc, now) == [lastModified |-> now, updatedAt |-> now] @@ doc

(***************************************************************************)
(* Ordering of values, as the store's sort compares them.                  *)
(***************************************************************************)
\* the characters of the model in code-point order
CodePointOrder ==
    <<" ","-",".","0","1","2","3","4","5","6","7","8","9","A","B","C","D","E","F","G","H","I","J","K","L","M","N","O","P","Q","R","S","T","U","V","W","X","Y","Z","a","b","c","d","e","f","g","h","i","j","k","l","m","n","o","p","q","r","s","t","u","v","w","x","y","z">>

CodePoint(c) == CHOOSE i \in 1..Len(CodePointOrder) : CodePointOrder[i] = c

\* binary string comparison: s sorts strictly before t
StringLess(s, t) ==
    \/ /\ Len(s) < Len(t)
       /\ \A j \in 1..Len(s) : s[j] = t[j]
    \/ \E i \in 1..Len(s) :
          /\ i <= Len(t)
          /\ \A j \in 1..(i - 1) : s[j] = t[j]
          /\ CodePoint(s[i]) < CodePoint(t[i])

\* the sort tokens of the model: the field a token names, and whether a
\* leading '-' asks for the descending order
SortField(tok) ==
    CASE tok = "-createdAt" -> "createdAt"
      [] tok = "createdAt"  -> "createdAt"
      [] tok = "year"       -> "year"
      [] tok = "-year"      -> "year"
      [] tok = "title"      -> "title"
SortDescending(tok) == tok \in {"-createdAt", "-year"}

\* a sorts strictly before b on one field, ascending
FieldLess(a, b, field) ==
    IF field = "title" THEN StringLess(a[field], b[field])
    ELSE a[field] < b[field]

RECURSIVE SortsBefore(_, _, _)
\* a must come strictly before b under the sort specification, a sequence of
\* tokens with the primary key first
SortsBefore(a, b, sortSpec) ==
    IF sortSpec = <<>> THEN FALSE
    ELSE LET f    == SortField(Head(sortSpec))
             desc == SortDescending(Head(sortSpec))
             lt   == IF desc THEN FieldLess(b, a, f) ELSE FieldLess(a, b, f)
             gt   == IF desc THEN FieldLess(a, b, f) ELSE FieldLess(b, a, f)
         IN  lt \/ (~gt /\ SortsBefore(a, b, Tail(sortSpec)))

\* every order in which the store may return the documents of a set under a
\* sort: documents that tie on every key come in an order the store chooses
SortedOrders(docs, sortSpec) ==
    LET n == Cardinality(docs)
    IN  {s \in [1..n -> docs] :
            /\ \A i, j \in 1..n : i # j => s[i] # s[j]
            /\ \A i, j \in 1..n : i < j => ~SortsBefore(s[j], s[i], sortSpec)}

Max(a, b) == IF a > b THEN a ELSE b
Min(a, b) == IF a < b THEN a ELSE b

\* a cursor that drops the skip: every page is the first page
SkipLimitWithoutSkip(s, skip, limit) == SubSeq(s, 1, Min(limit, Len(s)))

\* cursor.skip(k).limit(n) over the sorted result
SkipLimit(s, skip, limit) ==
    SubSeq(s, skip + 1, IF skip + limit < Len(s) THEN skip + limit ELSE Len(s))

\* Math.floor in the place of Math.ceil
FloorDiv(a, b) == a \div b

\* Math.ceil(a / b) for a >= 0, b > 0
CeilDiv(a, b) == (a + b - 1) \div b

(***************************************************************************)
(* validatePagination: the Joi schema of the list query.                   *)
(***************************************************************************)
TextParams == {"search", "genre", "author", "language", "publisher"}
YearParams == {"year", "minYear", "maxYear"}
RatingParams == {"rating", "minRating", "maxRating"}

\* a limit rule that accepts every number
LimitErrorsNone(q) == {}

\* limit: Joi.number().integer().min(1).max(100)
LimitErrors(q) ==
    IF Has(q, "limit") /\ (q.limit < 1 \/ q.limit > MaxListLimit)
    THEN {"limit"} ELSE {}

\* the parameters of a query that violate paginationSchema
PaginationErrors(q) ==
      (IF Has(q, "page") /\ q.page < 1 THEN {"page"} ELSE {})
    \cup LimitErrors(q)
    \cup {k \in TextParams : Has(q, k) /\ trim(q[k]) = <<>>}
    \cup {k \in YearParams : Has(q, k) /\ (q[k] < MinYear \/ q[k] > CurrentYear)}
    \cup {k \in RatingParams : Has(q, k) /\ (q[k] < 0 \/ q[k] > MaxRating)}
    \cup (IF Has(q, "available") /\ q.available \notin {"true", "false"}
          THEN {"available"} ELSE {})
    \cup (IF Has(q, "sort") /\ q.sort = <<>> THEN {"sort"} ELSE {})

\* the validated value: defaults filled in, text parameters trimmed
PaginationValue(q) ==
    LET trimmed == [k \in DOMAIN q |-> IF k \in TextParams THEN trim(q[k]) ELSE q[k]]
    IN  trimmed @@ [page |-> DefaultPage, limit |-> DefaultLimit,
                    sort |-> <<"-createdAt">>]

(***************************************************************************)
(* validatePagination over the text of the query string: Joi converts the  *)
(* text of a number parameter to a number, and reports the parameter when  *)
(* the text is no number, or no integer where the schema asks for one.     *)
(* The texts of the model are an optional '-', digits, and an optional     *)
(* fraction; everything else is no number.                                 *)
(***************************************************************************)
IntegerParams == {"page", "limit", "year", "minYear", "maxYear"}
NumberParams == IntegerParams \cup RatingParams
KnownParams == NumberParams \cup TextParams \cup {"sort", "available"}

\* the text without its sign
Unsigned(s) == IF Len(s) > 0 /\ s[1] = "-" THEN Tail(s) ELSE s

\* the text is a decimal number
IsNumberText(s) ==
    LET g == split(Unsigned(s), ".")
    IN  /\ Len(g) \in {1, 2}
        /\ Digits(g[1], 1, Len(s))
        /\ Len(g) = 2 => Digits(g[2], 0, Len(s))

\* the text is a decimal number without fraction digits other than 0
IsIntegerText(s) ==
    /\ IsNumberText(s)
    /\ LET g == split(Unsigned(s), ".")
       IN  Len(g) = 2 => \A i \in 1..Len(g[2]) : g[2][i] = "0"

DigitValue(c) ==
    CASE c = "0" -> 0 [] c = "1" -> 1 [] c = "2" -> 2 [] c = "3" -> 3
      [] c = "4" -> 4 [] c = "5" -> 5 [] c = "6" -> 6 [] c = "7" -> 7
      [] c = "8" -> 8 [] c = "9" -> 9

RECURSIVE DigitsValue(_)
DigitsValue(s) ==
    IF s = <<>> THEN 0
    ELSE 10 * DigitsValue(SubSeq(s, 1, Len(s) - 1)) + DigitValue(s[Len(s)])

\* Number(text), for the text of an integer
IntegerValue(s) ==
    LET whole == split(Unsigned(s), ".")[1]
    IN  IF Len(s) > 0 /\ s[1] = "-" THEN 0 - DigitsValue(whole)
        ELSE DigitsValue(whole)

\* the parameters Joi cannot convert (number.base, number.integer) and the
\* parameters the schema does not know (object.unknown)
ConversionErrors(raw) ==
      {k \in DOMAIN raw \cap NumberParams : ~IsNumberText(raw[k])}
    \cup {k \in DOMAIN raw \cap IntegerParams : ~IsIntegerText(raw[k])}
    \cup (DOMAIN raw \ KnownParams)

\* the query with the number parameters converted
Converted(raw) ==
    [k \in (DOMAIN raw) \ ConversionErrors(raw) |->
        IF k \in NumberParams THEN IntegerValue(raw[k]) ELSE raw[k]]

\* a validation that stops at the first error (abortEarly: true)
TextPaginationErrorsAbortEarly(raw) ==
    LET all == ConversionErrors(raw) \cup PaginationErrors(Converted(raw))
    IN  IF all = {} THEN {} ELSE {CHOOSE k \in all : TRUE}

\* the parameters of a query string that violate paginationSchema, all of
\* them (abortEarly: false)
TextPaginationErrors(raw) ==
    ConversionErrors(raw) \cup PaginationErrors(Converted(raw))

(***************************************************************************)
(* getAllBooks: the query object.                                          *)
(***************************************************************************)
\* if (minX || maxX) { o = {}; if (minX) o.$gte = minX; if (maxX) o.$lte = maxX }
RangeCondition(q, minKey, maxKey) ==
    (IF Has(q, minKey) /\ TruthyNum(q[minKey]) THEN ("gte" :> q[minKey]) ELSE <<>>)
    @@ (IF Has(q, maxKey) /\ TruthyNum(q[maxKey]) THEN ("lte" :> q[maxKey]) ELSE <<>>)

\* the condition on a numeric field: the exact value, overwritten by the range
\* when a bound is supplied
NumericCondition(q, field, exactKey, minKey, maxKey) ==
    IF (Has(q, minKey) /\ TruthyNum(q[minKey]))
         \/ (Has(q, maxKey) /\ TruthyNum(q[maxKey]))
    THEN field :> RangeCondition(q, minKey, maxKey)
    ELSE IF Has(q, exactKey) /\ TruthyNum(q[exactKey])
         THEN field :> ("eq" :> q[exactKey])
         ELSE <<>>

\* a case-insensitive $regex condition on a text field
RegexCondition(q, key) ==
    IF Has(q, key) /\ TruthyStr(q[key]) THEN key :> q[key] ELSE <<>>

\* queryObj as getAllBooks builds it from req.query
BuildQueryObj(q) ==
       (IF Has(q, "search") /\ TruthyStr(q.search) THEN ("or" :> q.search) ELSE <<>>)
    @@ RegexCondition(q, "genre")
    @@ NumericCondition(q, "year", "year", "minYear", "maxYear")
    @@ RegexCondition(q, "author")
    @@ (IF Has(q, "available") THEN ("available" :> (q.available = "true")) ELSE <<>>)
    @@ NumericCondition(q, "rating", "rating", "minRating", "maxRating")
    @@ RegexCondition(q, "language")
    @@ RegexCondition(q, "publisher")

(***************************************************************************)
(* The store's evaluation of a query object against a document.            *)
(***************************************************************************)
\* { field: { $regex: pattern, $options: 'i' } }
MatchesRegex(doc, field, pattern) ==
    Has(doc, field) /\ regexTest(pattern, doc[field])

\* { field: n } / { field: { $gte: a, $lte: b } }
MatchesNumeric(doc, field, cond) ==
    /\ Has(doc, field)
    /\ (Has(cond, "eq")  => doc[field] = cond.eq)
    /\ (Has(cond, "gte") => doc[field] >= cond.gte)
    /\ (Has(cond, "lte") => doc[field] <= cond.lte)

\* the $or of the search: title, author, description, or one of the tags
MatchesSearch(doc, pattern) ==
    \/ MatchesRegex(doc, "title", pattern)
    \/ MatchesRegex(doc, "author", pattern)
    \/ MatchesRegex(doc, "description", pattern)
    \/ \E i \in 1..Len(doc.tags) : regexTest(pattern, doc.tags[i])

\* the document satisfies every condition of the query object
Matches(doc, qo) ==
    /\ (Has(qo, "or") => MatchesSearch(doc, qo["or"]))
    /\ \A k \in {"genre", "author", "language", "publisher"} :
          Has(qo, k) => MatchesRegex(doc, k, qo[k])
    /\ \A k \in {"year", "rating"} :
          Has(qo, k) => MatchesNumeric(doc, k, qo[k])
    /\ (Has(qo, "available") => doc.available = qo.available)

\* the documents of the collection
Documents(coll) == {coll[id] : id \in DOMAIN coll}

\* Book.find(queryObj): the matching documents
Find(coll, qo) == {d \in Documents(coll) : Matches(d, qo)}

\* Book.countDocuments(queryObj)
CountDocuments(coll, qo) == Cardinality(Find(coll, qo))

(***************************************************************************)
(* getAllBooks (GET /api/books, after validatePagination).                 *)
(***************************************************************************)
\* const pageNum = Math.max(1, parseInt(page))
PageNum(page) == Max(1, page)

\* const limitNum = Math.min(cap, Math.max(1, parseInt(limit)))
LimitNum(limit, cap) == Min(cap, Max(1, limit))

\* the pagination block of the list response
PaginationInfo(pageNum, limitNum, total) ==
    LET totalPages  == CeilDiv(total, limitNum)
        hasNextPage == pageNum < totalPages
        hasPrevPage == pageNum > 1
    IN  [page        |-> pageNum,
         limit       |-> limitNum,
         pages       |-> totalPages,
         hasNextPage |-> hasNextPage,
         hasPrevPage |-> hasPrevPage,
         nextPage    |-> IF hasNextPage THEN pageNum + 1 ELSE NULL,
         prevPage    |-> IF hasPrevPage THEN pageNum - 1 ELSE NULL]

\* a response whose total is the size of the page
ListBodyTotalOfPage(coll, qo, order, pageNum, limitNum) ==
    LET data  == SkipLimit(order, (pageNum - 1) * limitNum, limitNum)
        total == Len(data)
    IN  [status  |-> 200,
         success |-> TRUE,
         count   |-> Len(data),
         total   |-> total,
         data    |-> data]
        @@ PaginationInfo(pageNum, limitNum, total)

\* the body of the 200 response for one order in which the store returned
\* the matching documents
ListBody(coll, qo, order, pageNum, limitNum) ==
    LET data  == SkipLimit(order, (pageNum - 1) * limitNum, limitNum)
        total == CountDocuments(coll, qo)
    IN  [status  |-> 200,
         success |-> TRUE,
         count   |-> Len(data),
         total   |-> total,
         data    |-> data]
        @@ PaginationInfo(pageNum, limitNum, total)

\* every response getAllBooks can send for the validated query v
GetAllBooksResponses(coll, v) ==
    LET qo       == BuildQueryObj(v)
        pageNum  == PageNum(v.page)
        limitNum == LimitNum(v.limit, MaxListLimit)
    IN  {ListBody(coll, qo, order, pageNum, limitNum) :
            order \in SortedOrders(Find(coll, qo), v.sort)}

\* GET /api/books: validatePagination, then getAllBooks
ListResponses(coll, q) ==
    IF PaginationErrors(q) # {}
    THEN {[status  |-> 400,
           success |-> FALSE,
           message |-> "Invalid query parameters",
           errors  |-> PaginationErrors(q)]}
    ELSE GetAllBooksResponses(coll, PaginationValue(q))

\* GET /api/books with the query string as text: validatePagination, then
\* getAllBooks over the converted values
TextListResponses(coll, raw) ==
    IF TextPaginationErrors(raw) # {}
    THEN {[status  |-> 400,
           success |-> FALSE,
           message |-> "Invalid query parameters",
           errors  |-> TextPaginationErrors(raw)]}
    ELSE GetAllBooksResponses(coll, PaginationValue(Converted(raw)))

(***************************************************************************)
(* getBooksByGenre (GET /api/books/genre/:genre, no validation).           *)
(***************************************************************************)
GenreQueryObj(genre) == "genre" :> genre

GetBooksByGenreResponses(coll, genre, q) ==
    LET v        == q @@ [page |-> DefaultPage, limit |-> DefaultLimit]
        pageNum  == PageNum(v.page)
        limitNum == LimitNum(v.limit, MaxGenreLimit)
        qo       == GenreQueryObj(genre)
    IN  {[status  |-> 200,
          success |-> TRUE,
          count   |-> Len(SkipLimit(order, (pageNum - 1) * limitNum, limitNum)),
          total   |-> CountDocuments(coll, qo),
          genre   |-> genre,
          data    |-> SkipLimit(order, (pageNum - 1) * limitNum, limitNum)] :
            order \in SortedOrders(Find(coll, qo), <<"title">>)}

(***************************************************************************)
(* getBooksByGenre and getBooksByAuthor over the text of the query string. *)
(* The routes run no validation, so page and limit reach the controller as *)
(* the text of the URL.  A JavaScript number is <<n>>, and NaN is <<>>.    *)
(***************************************************************************)
NaN == <<>>
Num(n) == <<n>>

RECURSIVE LeadingDigits(_)
\* the longest run of digits the text begins with
LeadingDigits(s) ==
    IF s = <<>> \/ ~IsDigit(s[1]) THEN <<>>
    ELSE <<s[1]>> \o LeadingDigits(Tail(s))

\* parseInt(text): white space is skipped, then an optional '-', then the
\* longest run of digits; whatever follows is ignored, and the result is NaN
\* when there is no digit
parseInt(s) ==
    LET t == trim(s)
        d == LeadingDigits(Unsigned(t))
    IN  IF d = <<>> THEN NaN
        ELSE IF t[1] = "-" THEN Num(0 - DigitsValue(d))
        ELSE Num(DigitsValue(d))

\* Math.max(a, x) and Math.min(a, x) for a number a: NaN when x is NaN
MathMax(a, x) == IF x = NaN THEN NaN ELSE Num(Max(a, x[1]))
MathMin(a, x) == IF x = NaN THEN NaN ELSE Num(Min(a, x[1]))

\* const { page = 1, limit = 10 } = req.query, then parseInt
ParsedParam(raw, k, default) ==
    IF Has(raw, k) THEN parseInt(raw[k]) ELSE Num(default)

\* const pageNum = Math.max(1, parseInt(page))
SiblingPageNum(raw) == MathMax(1, ParsedParam(raw, "page", DefaultPage))

\* const limitNum = Math.min(50, Math.max(1, parseInt(limit)))
SiblingLimitNum(raw) ==
    MathMin(MaxGenreLimit, MathMax(1, ParsedParam(raw, "limit", DefaultLimit)))

\* const skip = (pageNum - 1) * limitNum
SiblingSkip(raw) ==
    IF SiblingPageNum(raw) = NaN \/ SiblingLimitNum(raw) = NaN THEN NaN
    ELSE Num((SiblingPageNum(raw)[1] - 1) * SiblingLimitNum(raw)[1])

\* the error handler's answer to an error without statusCode
StoreErrorResponse ==
    [status |-> 500, success |-> FALSE, message |-> "store error"]

\* cursor.limit(n).skip(k) where the store reads a NaN as 0: no document is
\* skipped by a skip of 0, and a limit of 0 is no limit
SkipLimitReadingNaNAsZero(s, skip, limit) ==
    LET k == IF skip = NaN THEN 0 ELSE skip[1]
        n == IF limit = NaN THEN Len(s) ELSE limit[1]
    IN  SkipLimit(s, k, n)

\* every response of a handler of the by-genre shape: the filter is the
\* case-insensitive $regex of the path segment on one field, the sort is
\* fixed.  With a NaN skip or limit the store either rejects the find
\* command or reads the NaN as 0, depending on its version.
SiblingResponses(coll, field, segment, sortSpec, raw) ==
    LET qo    == field :> segment
        skip  == SiblingSkip(raw)
        limit == SiblingLimitNum(raw)
        lists == {[status  |-> 200,
                   success |-> TRUE,
                   count   |-> Len(SkipLimitReadingNaNAsZero(order, skip, limit)),
                   total   |-> CountDocuments(coll, qo),
                   data    |-> SkipLimitReadingNaNAsZero(order, skip, limit)]
                      @@ (field :> segment) :
                        order \in SortedOrders(Find(coll, qo), sortSpec)}
    IN  IF skip = NaN \/ limit = NaN
        THEN lists \cup {StoreErrorResponse}
        ELSE lists

\* GET /api/books/genre/:genre, sorted by title
GetBooksByGenreTextResponses(coll, genre, raw) ==
    SiblingResponses(coll, "genre", genre, <<"title">>, raw)

\* GET /api/books/author/:author, sorted by year, newest first
GetBooksByAuthorResponses(coll, author, raw) ==
    SiblingResponses(coll, "author", author, <<"-year">>, raw)

(***************************************************************************)
(* getBookStats (GET /api/books/stats): the $group stage over the whole    *)
(* collection.  The averages, the oldest and newest year and the genre     *)
(* distribution of the response are left out.                              *)
(***************************************************************************)
RECURSIVE SumAvailableEq(_, _)
\* { $sum: { $cond: [{ $eq: ['$available', value] }, 1, 0] } }
SumAvailableEq(docs, value) ==
    IF docs = {} THEN 0
    ELSE LET d == CHOOSE x \in docs : TRUE
         IN  (IF Has(d, "available") /\ d.available = value THEN 1 ELSE 0)
                + SumAvailableEq(docs \ {d}, value)

\* a group stage whose availableBooks counts every document
GroupStageCountingEveryBook(coll) ==
    IF DOMAIN coll = {} THEN <<>>
    ELSE <<[totalBooks      |-> Cardinality(Documents(coll)),
            availableBooks  |-> Cardinality(Documents(coll)),
            checkedOutBooks |-> SumAvailableEq(Documents(coll), FALSE)]>>

\* Book.aggregate([{ $group: { _id: null, ... } }]): one group when the
\* collection holds a document, and none when it is empty
GroupStage(coll) ==
    IF DOMAIN coll = {} THEN <<>>
    ELSE <<[totalBooks      |-> Cardinality(Documents(coll)),
            availableBooks  |-> SumAvailableEq(Documents(coll), TRUE),
            checkedOutBooks |-> SumAvailableEq(Documents(coll), FALSE)]>>

\* general: stats[0] || { totalBooks: 0, availableBooks: 0, checkedOutBooks: 0 }
GeneralStats(coll) ==
    IF Len(GroupStage(coll)) > 0 THEN GroupStage(coll)[1]
    ELSE [totalBooks |-> 0, availableBooks |-> 0, checkedOutBooks |-> 0]

(***************************************************************************)
(* validateBook and createBook (POST /api/books).                          *)
(***************************************************************************)
\* the fields of a request body that violate bookCreateSchema
BookCreateErrors(body) ==
      {k \in {"title", "author", "year"} : ~Has(body, k)}
    \cup {k \in {"title", "author", "description", "publisher", "language"} :
            Has(body, k) /\ trim(body[k]) = <<>>}
    \cup (IF Has(body, "title") /\ Len(trim(body.title)) > 200 THEN {"title"} ELSE {})
    \cup (IF Has(body, "author") /\ Len(trim(body.author)) > 100 THEN {"author"} ELSE {})
    \cup (IF Has(body, "year") /\ (body.year < MinYear \/ body.year > CurrentYear)
          THEN {"year"} ELSE {})
    \cup (IF Has(body, "isbn") /\ ~IsbnPatternTest(trim(body.isbn))
          THEN {"isbn"} ELSE {})
    \cup (IF Has(body, "genre") /\ body.genre \notin GenreEnum THEN {"genre"} ELSE {})
    \cup (IF Has(body, "pages") /\ (body.pages < 1 \/ body.pages > 10000)
          THEN {"pages"} ELSE {})
    \cup (IF Has(body, "rating") /\ (body.rating < 0 \/ body.rating > MaxRating)
          THEN {"rating"} ELSE {})
    \cup (IF Has(body, "tags")
             /\ \E i \in 1..Len(body.tags) :
                   trim(body.tags[i]) = <<>> \/ Len(trim(body.tags[i])) > MaxTagLen
          THEN {"tags"} ELSE {})

\* a validation that trims and fills in no default
BookCreateValueWithoutDefaults(body) ==
    [k \in DOMAIN body |->
        IF k \in StringPaths \cup {"addedBy"} THEN trim(body[k])
        ELSE IF k = "tags" THEN MapTrim(body[k])
        ELSE body[k]]

\* the validated value of a create body: strings trimmed, defaults filled in
BookCreateValue(body) ==
    LET trimmed == [k \in DOMAIN body |->
                      IF k \in StringPaths \cup {"addedBy"} THEN trim(body[k])
                      ELSE IF k = "tags" THEN MapTrim(body[k])
                      ELSE body[k]]
    IN  trimmed @@ [available |-> TRUE,
                    language  |-> <<"E","n","g","l","i","s","h">>,
                    addedBy   |-> <<"a","p","i","_","u","s","e","r">>]

\* new Book(body): the body cast to the schema, defaults for the unset paths,
\* the identifier and the creation timestamp
NewDocument(body, id, now) ==
    CastToSchema(body) @@ SchemaDefaults
        @@ [_id |-> id, createdAt |-> now, updatedAt |-> now, lastModified |-> now]

\* an index that never reports a duplicate
IsbnTakenNever(coll, id, doc) == FALSE

\* a document of the collection other than id holds this isbn (unique index)
IsbnTaken(coll, id, doc) ==
    /\ Has(doc, "isbn")
    /\ \E other \in DOMAIN coll :
          other # id /\ Has(coll[other], "isbn") /\ coll[other].isbn = doc.isbn

\* the error handler's response to a Mongoose ValidationError: the message
\* joins the messages of the failing paths
ValidationErrorResponse(paths) ==
    [status |-> 400, success |-> FALSE, message |-> paths]

\* the error handler's response to a duplicate key error (code 11000) on
\* the isbn index: `Isbn '<value>' already exists`
DuplicateKeyResponse(value) ==
    [status |-> 400, success |-> FALSE,
     message |-> <<"I","s","b","n"," ","'">> \o value
                     \o <<"'"," ","a","l","r","e","a","d","y"," ","e","x","i","s","t","s">>]

\* a lookup that answers an unknown identifier with an empty success
NotFoundAsEmptySuccess ==
    [status |-> 200, success |-> TRUE, message |-> "Book not found"]

\* next(new AppError('Book not found', 404)) through the error handler
NotFoundResponse ==
    [status |-> 404, success |-> FALSE, message |-> "Book not found"]

(***************************************************************************)
(* validateBookUpdate and updateBook (PUT /api/books/:id).                 *)
(***************************************************************************)
UpdatableFields == {"title", "author", "year", "isbn", "genre", "description",
                    "available", "pages", "publisher", "language", "rating", "tags"}

\* the fields of a request body that violate bookUpdateSchema; unknown keys
\* are stripped, and at least one key must be present
BookUpdateErrors(body) ==
      (IF DOMAIN body = {} THEN {"object.min"} ELSE {})
    \cup {k \in {"title", "author", "description", "publisher", "language"} :
            Has(body, k) /\ trim(body[k]) = <<>>}
    \cup (IF Has(body, "title") /\ Len(trim(body.title)) > 200 THEN {"title"} ELSE {})
    \cup (IF Has(body, "author") /\ Len(trim(body.author)) > 100 THEN {"author"} ELSE {})
    \cup (IF Has(body, "year") /\ (body.year < MinYear \/ body.year > CurrentYear)
          THEN {"year"} ELSE {})
    \cup (IF Has(body, "isbn") /\ ~IsbnPatternTest(trim(body.isbn))
          THEN {"isbn"} ELSE {})
    \cup (IF Has(body, "genre") /\ body.genre \notin GenreEnum THEN {"genre"} ELSE {})
    \cup (IF Has(body, "pages") /\ (body.pages < 1 \/ body.pages > 10000)
          THEN {"pages"} ELSE {})
    \cup (IF Has(body, "rating") /\ (body.rating < 0 \/ body.rating > MaxRating)
          THEN {"rating"} ELSE {})
    \cup (IF Has(body, "tags")
             /\ \E i \in 1..Len(body.tags) :
                   trim(body.tags[i]) = <<>> \/ Len(trim(body.tags[i])) > MaxTagLen
          THEN {"tags"} ELSE {})

\* the validated value of an update body: known keys only, strings trimmed
BookUpdateValue(body) ==
    [k \in DOMAIN body \cap UpdatableFields |->
        IF k \in StringPaths THEN trim(body[k])
        ELSE IF k = "tags" THEN MapTrim(body[k])
        ELSE body[k]]

\* an update that replaces the document by the body (overwrite semantics)
UpdatedByReplacement(doc, body) ==
    CastToSchema(body) @@ SchemaDefaults
        @@ [_id |-> doc._id, createdAt |-> doc.createdAt]

\* Book.findByIdAndUpdate(id, body, { new: true, runValidators: true }): the
\* body cast to the schema and set on the stored document.  No save hook runs.
Updated(doc, body) == Assign(doc, CastToSchema(body))

\* runValidators: the schema validators of the paths the update sets
UpdateValidatorErrors(body) ==
    {k \in SchemaErrors(CastToSchema(body)) : Has(body, k)}

(***************************************************************************)
(* The instance methods of the model.                                      *)
(***************************************************************************)
\* this.available = !this.available
ToggledAvailability(doc) == [doc EXCEPT !["available"] = ~doc.available]

\* addTag, before the save: the clean tag is pushed unless already included
WithTag(doc, tag) ==
    LET cleanTag == toLowerCase(trim(tag))
    IN  IF TruthyStr(tag) /\ ~arrayIncludes(doc.tags, cleanTag)
        THEN [doc EXCEPT !["tags"] = Append(doc.tags, cleanTag)]
        ELSE doc

\* removeTag, before the save: the elements equal to the clean tag are dropped
WithoutTag(doc, tag) ==
    LET cleanTag == toLowerCase(trim(tag))
    IN  IF TruthyStr(tag)
        THEN [doc EXCEPT !["tags"] = FilterNotEqual(doc.tags, cleanTag)]
        ELSE doc

(***************************************************************************)
(* Requests.  The client is sequential: one request, its response, then    *)
(* the next request.                                                       *)
(***************************************************************************)
NoRequest == [op |-> "none"]
NoResponse == [status |-> 0]
NoList == [stage |-> "none"]
NoHits == [hits |-> 0, minute |-> 0, posts |-> 0]
NoPipeline == [stage |-> "none", sent |-> 0]

\* the client holds no unanswered request and has read the last response
Idle == req = NoRequest

\* the client reads the response; it sends its next request after that
Receive ==
    /\ req # NoRequest
    /\ req' = NoRequest
    /\ resp' = NoResponse
    /\ UNCHANGED <<books, nextId, clock, writes, inflight, limiter, pipeline>>

\* GET /api/books?...
ListBooks(q) ==
    /\ Idle
    /\ req' = [op |-> "list", query |-> q]
    /\ resp' \in ListResponses(books, q)
    /\ UNCHANGED <<books, nextId, clock, writes, inflight, limiter, pipeline>>

\* GET /api/books?..., the values of the parameters as the text of the URL
ListBooksText(raw) ==
    /\ Idle
    /\ req' = [op |-> "listText", query |-> raw]
    /\ resp' \in TextListResponses(books, raw)
    /\ UNCHANGED <<books, nextId, clock, writes, inflight, limiter, pipeline>>

\* GET /api/books/genre/:genre?page&limit
GetBooksByGenre(genre, q) ==
    /\ Idle
    /\ req' = [op |-> "byGenre", genre |-> genre, query |-> q]
    /\ resp' \in GetBooksByGenreResponses(books, genre, q)
    /\ UNCHANGED <<books, nextId, clock, writes, inflight, limiter, pipeline>>

\* GET /api/books/genre/:genre?page&limit, page and limit as text
GetBooksByGenreText(genre, raw) ==
    /\ Idle
    /\ req' = [op |-> "byGenreText", field |-> "genre", segment |-> genre, query |-> raw]
    /\ resp' \in GetBooksByGenreTextResponses(books, genre, raw)
    /\ UNCHANGED <<books, nextId, clock, writes, inflight, limiter, pipeline>>

\* GET /api/books/author/:author?page&limit, page and limit as text
GetBooksByAuthor(author, raw) ==
    /\ Idle
    /\ req' = [op |-> "byAuthor", field |-> "author", segment |-> author, query |-> raw]
    /\ resp' \in GetBooksByAuthorResponses(books, author, raw)
    /\ UNCHANGED <<books, nextId, clock, writes, inflight, limiter, pipeline>>

\* GET /api/books/stats
GetBookStats ==
    /\ Idle
    /\ req' = [op |-> "stats"]
    /\ resp' = [status |-> 200, success |-> TRUE,
                data |-> [general |-> GeneralStats(books)]]
    /\ UNCHANGED <<books, nextId, clock, writes, inflight, limiter, pipeline>>

\* validateBook, then createBook: the response and the collection
CreateBookHandler(body) ==
    /\ Idle
    /\ nextId <= MaxBooks
    /\ req' = [op |-> "create", body |-> body]
    /\ IF BookCreateErrors(body) # {}
       THEN /\ resp' = [status |-> 400, success |-> FALSE,
                        message |-> "Validation failed",
                        errors |-> BookCreateErrors(body)]
            /\ UNCHANGED <<books, nextId, clock>>
       ELSE LET doc == NewDocument(BookCreateValue(body), nextId, clock)
            IN  IF SaveErrors(doc) # {}
                THEN /\ resp' = ValidationErrorResponse(SaveErrors(doc))
                     /\ UNCHANGED <<books, nextId, clock>>
                ELSE IF IsbnTaken(books, nextId, Saved(doc))
                THEN /\ resp' = DuplicateKeyResponse(Saved(doc).isbn)
                     /\ UNCHANGED <<books, nextId, clock>>
                ELSE /\ books' = (nextId :> Touched(Saved(doc), clock)) @@ books
                     /\ nextId' = nextId + 1
                     /\ clock' = clock + 1
                     /\ resp' = [status |-> 201, success |-> TRUE,
                                 message |-> "Book created successfully",
                                 data |-> Touched(Saved(doc), clock)]

\* POST /api/books
CreateBook(body) ==
    /\ CreateBookHandler(body)
    /\ UNCHANGED <<writes, inflight, limiter, pipeline>>

(***************************************************************************)
(* The rate limiter.  app.use('/api', generalLimiter) is the only limiter  *)
(* in the middleware chain; strictLimiter, createLimiter and searchLimiter *)
(* are built and exported, and no route uses them.  The store counts the   *)
(* requests of an IP in the current window; windows are aligned to the     *)
(* minute.  limiter.posts counts the creation requests of the current      *)
(* minute: no code keeps that number, and it is there to state the limit.  *)
(***************************************************************************)
\* express-rate-limit: the request is counted, and rejected when the count
\* of the window exceeds max
GeneralLimiterRejects == limiter.hits + 1 > GeneralMax

\* handler: res.status(options.statusCode).json(options.message)
TooManyRequestsResponse ==
    [status |-> 429, success |-> FALSE,
     message |-> "Too many requests from this IP, please try again in 15 minutes."]

\* POST /api/books from the first middleware on: generalLimiter, then
\* validateBook and createBook
PostBook(body) ==
    /\ limiter.hits <= GeneralMax
    /\ limiter' = [limiter EXCEPT !.hits = @ + 1,
                                  !.posts = Min(@ + 1, CreateMax + 1)]
    /\ IF GeneralLimiterRejects
       THEN /\ Idle
            /\ req' = [op |-> "create", body |-> body]
            /\ resp' = TooManyRequestsResponse
            /\ UNCHANGED <<books, nextId, clock>>
       ELSE CreateBookHandler(body)
    /\ UNCHANGED <<writes, inflight, pipeline>>

\* a minute passes: the counters of the windows that end are reset
MinutePasses ==
    /\ limiter' = [hits   |-> IF limiter.minute + 1 = GeneralWindowMinutes
                              THEN 0 ELSE limiter.hits,
                   minute |-> (limiter.minute + 1) % GeneralWindowMinutes,
                   posts  |-> 0]
    /\ UNCHANGED <<books, nextId, clock, writes, req, resp, inflight, pipeline>>

\* a request that loads a document, changes it and saves it: the response
\* and the collection after document.save() of the changed document
SaveAndRespond(id, changed, message) ==
    IF SaveErrors(changed) # {}
    THEN /\ resp' = ValidationErrorResponse(SaveErrors(changed))
         /\ UNCHANGED <<books, clock>>
    ELSE /\ books' = [books EXCEPT ![id] = Touched(Saved(changed), clock)]
         /\ clock' = clock + 1
         /\ resp' = [status |-> 200, success |-> TRUE,
                     message |-> message,
                     data |-> Touched(Saved(changed), clock)]

\* the messages of the three requests that save a document
ToggledMessage(book) ==
    IF book.available THEN "Book availability toggled to available"
    ELSE "Book availability toggled to unavailable"
TagAddedMessage == "Tag added successfully"
TagRemovedMessage == "Tag removed successfully"

\* getBook: the response of GET /api/books/:id over the collection coll
GetBookResponse(coll, id) ==
    IF id \in DOMAIN coll
    THEN [status |-> 200, success |-> TRUE, data |-> coll[id]]
    ELSE NotFoundResponse

\* GET /api/books/:id
GetBook(id) ==
    /\ Idle
    /\ req' = [op |-> "get", id |-> id]
    /\ resp' = GetBookResponse(books, id)
    /\ UNCHANGED <<books, nextId, clock, writes, inflight, limiter, pipeline>>

\* PUT /api/books/:id
UpdateBook(id, body) ==
    /\ Idle
    /\ writes < MaxWrites
    /\ writes' = writes + 1
    /\ req' = [op |-> "update", id |-> id, body |-> body]
    /\ IF BookUpdateErrors(body) # {}
       THEN /\ resp' = [status |-> 400, success |-> FALSE,
                        message |-> "Validation failed",
                        errors |-> BookUpdateErrors(body)]
            /\ UNCHANGED <<books, clock>>
       ELSE IF UpdateValidatorErrors(BookUpdateValue(body)) # {}
       THEN /\ resp' = ValidationErrorResponse(
                           UpdateValidatorErrors(BookUpdateValue(body)))
            /\ UNCHANGED <<books, clock>>
       ELSE IF id \notin DOMAIN books
       THEN /\ resp' = NotFoundResponse
            /\ UNCHANGED <<books, clock>>
       ELSE LET doc == Touched(Updated(books[id], BookUpdateValue(body)), clock)
            IN  IF IsbnTaken(books, id, doc)
                THEN /\ resp' = DuplicateKeyResponse(doc.isbn)
                     /\ UNCHANGED <<books, clock>>
                ELSE /\ books' = [books EXCEPT ![id] = doc]
                     /\ clock' = clock + 1
                     /\ resp' = [status |-> 200, success |-> TRUE,
                                 message |-> "Book updated successfully",
                                 data |-> doc]
    /\ UNCHANGED <<nextId, inflight, limiter, pipeline>>

\* a delete that answers 200 and leaves the document in the collection
DeleteBookKeepingTheDocument(id) ==
    /\ Idle
    /\ writes < MaxWrites
    /\ writes' = writes + 1
    /\ req' = [op |-> "delete", id |-> id]
    /\ resp' = IF id \notin DOMAIN books THEN NotFoundResponse
               ELSE [status |-> 200, success |-> TRUE,
                     message |-> "Book deleted successfully"]
    /\ UNCHANGED <<books, nextId, clock, inflight, limiter, pipeline>>

\* DELETE /api/books/:id
DeleteBook(id) ==
    /\ Idle
    /\ writes < MaxWrites
    /\ writes' = writes + 1
    /\ req' = [op |-> "delete", id |-> id]
    /\ IF id \notin DOMAIN books
       THEN /\ resp' = NotFoundResponse
            /\ UNCHANGED books
       ELSE /\ books' = [x \in (DOMAIN books) \ {id} |-> books[x]]
            /\ resp' = [status |-> 200, success |-> TRUE,
                        message |-> "Book deleted successfully"]
    /\ UNCHANGED <<nextId, clock, inflight, limiter, pipeline>>

\* PATCH /api/books/:id/toggle-availability
ToggleBookAvailability(id) ==
    /\ Idle
    /\ writes < MaxWrites
    /\ writes' = writes + 1
    /\ req' = [op |-> "toggle", id |-> id]
    /\ IF id \notin DOMAIN books
       THEN /\ resp' = NotFoundResponse
            /\ UNCHANGED <<books, clock>>
       ELSE SaveAndRespond(id, ToggledAvailability(books[id]),
                           ToggledMessage(ToggledAvailability(books[id])))
    /\ UNCHANGED <<nextId, inflight, limiter, pipeline>>

\* PATCH /api/books/:id/tags
AddTagToBook(id, tag) ==
    /\ Idle
    /\ writes < MaxWrites
    /\ writes' = writes + 1
    /\ req' = [op |-> "addTag", id |-> id, tag |-> tag]
    /\ IF ~TruthyStr(tag)
       THEN /\ resp' = [status |-> 400, success |-> FALSE, message |-> "Tag is required"]
            /\ UNCHANGED <<books, clock>>
       ELSE IF id \notin DOMAIN books
       THEN /\ resp' = NotFoundResponse
            /\ UNCHANGED <<books, clock>>
       ELSE SaveAndRespond(id, WithTag(books[id], tag), TagAddedMessage)
    /\ UNCHANGED <<nextId, inflight, limiter, pipeline>>

\* PATCH /api/books/:id/tags with a number as the tag: addTag pushes nothing
\* for a tag that is no string, and saves
AddNumberTagToBook(id, n) ==
    /\ Idle
    /\ writes < MaxWrites
    /\ writes' = writes + 1
    /\ req' = [op |-> "addNumberTag", id |-> id, tag |-> n]
    /\ IF ~TruthyNum(n)
       THEN /\ resp' = [status |-> 400, success |-> FALSE, message |-> "Tag is required"]
            /\ UNCHANGED <<books, clock>>
       ELSE IF id \notin DOMAIN books
       THEN /\ resp' = NotFoundResponse
            /\ UNCHANGED <<books, clock>>
       ELSE SaveAndRespond(id, books[id], TagAddedMessage)
    /\ UNCHANGED <<nextId, inflight, limiter, pipeline>>

\* DELETE /api/books/:id/tags
RemoveTagFromBook(id, tag) ==
    /\ Idle
    /\ writes < MaxWrites
    /\ writes' = writes + 1
    /\ req' = [op |-> "removeTag", id |-> id, tag |-> tag]
    /\ IF ~TruthyStr(tag)
       THEN /\ resp' = [status |-> 400, success |-> FALSE, message |-> "Tag is required"]
            /\ UNCHANGED <<books, clock>>
       ELSE IF id \notin DOMAIN books
       THEN /\ resp' = NotFoundResponse
            /\ UNCHANGED <<books, clock>>
       ELSE SaveAndRespond(id, WithoutTag(books[id], tag), TagRemovedMessage)
    /\ UNCHANGED <<nextId, inflight, limiter, pipeline>>

(***************************************************************************)
(* Inputs of the list specification.                                       *)
(***************************************************************************)
Optional(key, values) == {<<>>} \cup {key :> v : v \in values}

\* request bodies of POST /api/books
ListBodies == {
    [title |-> <<"G","a","t","s","b","y">>, author |-> <<"F","i","t","z">>, year |-> 2019,
     genre |-> <<"F","i","c","t","i","o","n">>, rating |-> 0,
     tags |-> <<<<"C","l","a","s","s","i","c">>>>],
    [title |-> <<"B","o","o","k">>, author |-> <<"A","n","n">>, year |-> 2020,
     genre |-> <<"N","o","n","-","F","i","c","t","i","o","n">>, rating |-> 3,
     description |-> <<"a"," ","t","a","l","e">>],
    [title |-> <<"T","o","m","e">>, author |-> <<"A","n","n">>, year |-> 2021,
     genre |-> <<"F","i","c","t","i","o","n">>, available |-> FALSE],
    [author |-> <<"A","n","n">>, year |-> 2021]
}

\* page and limit, inside and outside the ranges the validation accepts
PageLimitQueries ==
    {p @@ l : p \in Optional("page", {0, 1, 2, 3, 4}),
              l \in Optional("limit", {-1, 0, 1, 2, 100, 101, 150})}

\* a filter together with page and limit
FilteredPageQueries ==
    {g @@ p @@ l : g \in Optional("genre", {<<"f","i","c","t","i","o","n">>}),
                   p \in Optional("page", {1, 2}),
                   l \in Optional("limit", {1, 2})}

\* exact year and year range
YearQueries ==
    {y @@ lo @@ hi : y  \in Optional("year", {2019, 2021, 999}),
                     lo \in Optional("minYear", {2020}),
                     hi \in Optional("maxYear", {2019, 2020})}

\* exact rating and rating range
RatingQueries ==
    {r @@ lo @@ hi : r  \in Optional("rating", {0, 3}),
                     lo \in Optional("minRating", {0, 3}),
                     hi \in Optional("maxRating", {0, 3})}

\* free-text search, alone and with another filter
SearchQueries ==
    {s @@ a : s \in Optional("search", {<<"g","a","t","s","b","y">>, <<"F","I","T","Z">>, <<"t","a","l","e">>,
                                         <<"c","l","a","s","s","i","c">>, <<"g",".","t">>, <<"z","z","z">>, <<" ">>}),
              a \in Optional("available", {"true", "false"})}

\* several filters at once
MultiFilterQueries ==
    {g @@ y @@ a @@ r :
        g \in Optional("genre", {<<"f","i","c","t","i","o","n">>, <<"N","o","n","-","F","i","c","t","i","o","n">>}),
        y \in Optional("year", {2019, 2021}),
        a \in Optional("author", {<<"a","n","n">>}),
        r \in Optional("maxRating", {0})}

\* a sort other than the default
SortQueries ==
    {st @@ l : st \in Optional("sort", {<<"year">>, <<"-year", "createdAt">>, <<"title">>}),
               l  \in Optional("limit", {2})}

ListQueries ==
    PageLimitQueries \cup FilteredPageQueries \cup YearQueries \cup RatingQueries
        \cup SearchQueries \cup MultiFilterQueries \cup SortQueries

\* the :genre segment and the query of GET /api/books/genre/:genre
GenreSegments == {<<"f","i","c","t","i","o","n">>, <<"F","i","c","t","i","o","n">>, <<"n","o","n","-","f","i","c","t","i","o","n">>}
GenreRouteQueries ==
    {p @@ l : p \in Optional("page", {1, 2}), l \in Optional("limit", {1, 60})}

(***************************************************************************)
(* The list specification: the collection is filled through POST, and read *)
(* through GET /api/books and GET /api/books/genre/:genre.                 *)
(***************************************************************************)
Init ==
    /\ books = <<>>
    /\ nextId = 1
    /\ clock = 1
    /\ writes = 0
    /\ req = NoRequest
    /\ resp = NoResponse
    /\ inflight = NoList
    /\ limiter = NoHits
    /\ pipeline = NoPipeline

NextList ==
    \/ \E body \in ListBodies : CreateBook(body)
    \/ \E q \in ListQueries : ListBooks(q)
    \/ \E g \in GenreSegments, q \in GenreRouteQueries : GetBooksByGenre(g, q)
    \/ Receive

SpecList == Init /\ [][NextList]_vars

(***************************************************************************)
(* The query specification: the collection is filled through POST and read *)
(* through GET /api/books with query strings that are well and ill formed. *)
(***************************************************************************)
TextQueries ==
    {p @@ l @@ y @@ r :
        p \in Optional("page",   {<<"a","b","c">>, <<"2">>, <<"1",".","5">>, <<"0">>}),
        l \in Optional("limit",  {<<"x">>, <<"2">>, <<"1","5","0">>}),
        y \in Optional("year",   {<<"2","0","x","1">>, <<"2","0","1","9">>, <<"9","9","9">>}),
        r \in Optional("rating", {<<"h","i","g","h">>, <<"3">>, <<"-","1">>})}
    \cup {[foo |-> <<"1">>], [foo |-> <<"1">>, page |-> <<"a","b","c">>]}

NextQuery ==
    \/ \E body \in ListBodies : CreateBook(body)
    \/ \E raw \in TextQueries : ListBooksText(raw)
    \/ Receive

SpecQuery == Init /\ [][NextQuery]_vars

(***************************************************************************)
(* Inputs of the write specification.                                      *)
(***************************************************************************)
\* request bodies of POST /api/books
WriteBodies == {
    [title |-> <<"D","u","n","e">>, author |-> <<"A","n","n">>, year |-> 2020,
     genre |-> <<"F","i","c","t","i","o","n">>, isbn |-> <<"1","-","2","-","3","-","X">>,
     tags |-> <<<<"S","c","i">>, <<" ","s","c","i"," ">>>>],
    [title |-> <<"B","o","o","k">>, author |-> <<"B","o","b">>, year |-> 2021,
     genre |-> <<"N","o","n","-","F","i","c","t","i","o","n">>,
     pages |-> 10000, rating |-> 5],
    [title |-> <<"T","o","m","e">>, author |-> <<"B","o","b">>, year |-> 2021,
     tags |-> <<<<" ">>>>],
    [title |-> <<"A","t","l","a","s">>, author |-> <<"B","o","b">>, year |-> CurrentYear + 1,
     pages |-> 0, rating |-> 6]
}

\* request bodies of PUT /api/books/:id
UpdateBodies == {
    [tags |-> <<<<"F","o","o">>, <<"F","o","o">>>>],
    [tags |-> <<<<"s","c","i">>, <<"F","o","o">>>>],
    [rating |-> 4],
    [genre |-> <<"N","o","n","-","F","i","c","t","i","o","n">>, available |-> FALSE],
    [isbn |-> <<" ","1","-","2","-","3","-","X">>],
    [year |-> MinYear - 1, pages |-> 10001, rating |-> 0 - 1, isbn |-> <<"1","2","-","X">>],
    <<>>
}

\* the tag of PATCH and DELETE /api/books/:id/tags
TagInputs == {<<"s","c","i">>, <<" ","F","o","o"," ">>, <<"n","e","w">>, <<" ">>, <<>>}

\* well-formed identifiers a request can name
BookIds == 1..MaxBooks

(***************************************************************************)
(* The write specification: every request that creates, changes or deletes *)
(* a document, and the read of one document.                               *)
(***************************************************************************)
Next ==
    \/ \E body \in WriteBodies : CreateBook(body)
    \/ \E id \in BookIds : GetBook(id)
    \/ \E id \in BookIds, body \in UpdateBodies : UpdateBook(id, body)
    \/ \E id \in BookIds : DeleteBook(id)
    \/ \E id \in BookIds : ToggleBookAvailability(id)
    \/ \E id \in BookIds, tag \in TagInputs : AddTagToBook(id, tag)
    \/ \E id \in BookIds, tag \in TagInputs : RemoveTagFromBook(id, tag)
    \/ Receive

Spec == Init /\ [][Next]_vars

(***************************************************************************)
(* The record specification: every request that names one record, over     *)
(* the inputs that decide how a record is created, found, changed and      *)
(* deleted: an isbn that is free or taken, numbers inside and outside      *)
(* their bounds, a body that passes or fails validation, a tag or none.    *)
(***************************************************************************)
RecordBodies == {
    [title |-> <<"D","u","n","e">>, author |-> <<"A","n","n">>, year |-> 2020,
     genre |-> <<"F","i","c","t","i","o","n">>, isbn |-> <<"1","-","2","-","3","-","X">>,
     tags |-> <<<<"S","c","i">>, <<" ","s","c","i"," ">>>>],
    [title |-> <<"B","o","o","k">>, author |-> <<"B","o","b">>, year |-> 2021,
     pages |-> 10000, rating |-> 5],
    [title |-> <<"A","t","l","a","s">>, author |-> <<"B","o","b">>, year |-> CurrentYear + 1,
     pages |-> 0, rating |-> 6]
}

RecordUpdateBodies == {
    [rating |-> 4],
    [isbn |-> <<" ","1","-","2","-","3","-","X">>],
    [year |-> MinYear - 1, pages |-> 10001, rating |-> 0 - 1],
    <<>>
}

RecordTagInputs == {<<"s","c","i">>, <<>>}

NextRecords ==
    \/ \E body \in RecordBodies : CreateBook(body)
    \/ \E id \in BookIds : GetBook(id)
    \/ \E id \in BookIds, body \in RecordUpdateBodies : UpdateBook(id, body)
    \/ \E id \in BookIds : DeleteBook(id)
    \/ \E id \in BookIds : ToggleBookAvailability(id)
    \/ \E id \in BookIds, tag \in RecordTagInputs : AddTagToBook(id, tag)
    \/ \E id \in BookIds, tag \in RecordTagInputs : RemoveTagFromBook(id, tag)
    \/ Receive

SpecRecords == Init /\ [][NextRecords]_vars

(***************************************************************************)
(* The concurrent specification: a second client lists while the first     *)
(* creates and deletes.  getAllBooks awaits Book.find(...) and then         *)
(* Book.countDocuments(...); other requests are served between the two.    *)
(***************************************************************************)
\* validatePagination, then getAllBooks up to the result of Book.find: the
\* matching documents in the order the store returned them
FindBooks(q) ==
    /\ inflight.stage = "none"
    /\ IF PaginationErrors(q) # {}
       THEN inflight' = [stage |-> "answered", query |-> q,
                         response |-> CHOOSE r \in ListResponses(books, q) : TRUE]
       ELSE \E order \in SortedOrders(Find(books, BuildQueryObj(PaginationValue(q))),
                                      PaginationValue(q).sort) :
                inflight' = [stage |-> "found", query |-> q, order |-> order]
    /\ UNCHANGED <<books, nextId, clock, writes, req, resp, limiter, pipeline>>

\* getAllBooks from Book.countDocuments to the response: the page is the one
\* found before, the total is counted now
CountBooksAndRespond ==
    /\ inflight.stage = "found"
    /\ LET v == PaginationValue(inflight.query)
       IN  inflight' = [stage |-> "answered", query |-> inflight.query,
                        response |-> ListBody(books, BuildQueryObj(v), inflight.order,
                                              PageNum(v.page),
                                              LimitNum(v.limit, MaxListLimit))]
    /\ UNCHANGED <<books, nextId, clock, writes, req, resp, limiter, pipeline>>

\* the second client reads the response
ReceiveList ==
    /\ inflight.stage = "answered"
    /\ inflight' = NoList
    /\ UNCHANGED <<books, nextId, clock, writes, req, resp, limiter, pipeline>>

ConcurrentQueries ==
    {<<>>, [limit |-> 1], [page |-> 2, limit |-> 1],
     [genre |-> <<"f","i","c","t","i","o","n">>, limit |-> 2], [limit |-> 0]}

NextConcurrent ==
    \/ \E body \in ListBodies : CreateBook(body)
    \/ \E id \in BookIds : DeleteBook(id)
    \/ Receive
    \/ \E q \in ConcurrentQueries : FindBooks(q)
    \/ CountBooksAndRespond
    \/ ReceiveList

SpecConcurrent == Init /\ [][NextConcurrent]_vars

(***************************************************************************)
(* The sibling specification: the collection is filled through POST and    *)
(* read through the by-genre and by-author routes, with page and limit as  *)
(* any text a client can put in the URL.                                   *)
(***************************************************************************)
AuthorSegments == {<<"a","n","n">>, <<"F","I","T","Z">>}

SiblingQueries ==
    {p @@ l : p \in Optional("page",  {<<"a","b","c">>, <<"2">>, <<"0">>, <<>>}),
              l \in Optional("limit", {<<"x">>, <<"1">>, <<"6","0">>, <<"2","a","b">>, <<"-","1">>})}

NextSiblings ==
    \/ \E body \in ListBodies : CreateBook(body)
    \/ \E g \in GenreSegments, raw \in SiblingQueries : GetBooksByGenreText(g, raw)
    \/ \E a \in AuthorSegments, raw \in SiblingQueries : GetBooksByAuthor(a, raw)
    \/ Receive

SpecSiblings == Init /\ [][NextSiblings]_vars

(***************************************************************************)
(* The statistics specification: records are created available or not,     *)
(* with and without the name of who added them; their flag is set,         *)
(* toggled, and they are deleted; the statistics are read in between.      *)
(***************************************************************************)
StatsBodies == {
    [title |-> <<"D","u","n","e">>, author |-> <<"A","n","n">>, year |-> 2020],
    [title |-> <<"T","o","m","e">>, author |-> <<"B","o","b">>, year |-> 2021,
     available |-> FALSE],
    [title |-> <<"A","t","l","a","s">>, author |-> <<"B","o","b">>, year |-> 2021,
     addedBy |-> <<" ","a","n","n">>]
}

StatsUpdateBodies == {[available |-> FALSE], [available |-> TRUE, rating |-> 4]}

NextStats ==
    \/ \E body \in StatsBodies : CreateBook(body)
    \/ \E id \in BookIds, body \in StatsUpdateBodies : UpdateBook(id, body)
    \/ \E id \in BookIds : DeleteBook(id)
    \/ \E id \in BookIds : ToggleBookAvailability(id)
    \/ GetBookStats
    \/ Receive

SpecStats == Init /\ [][NextStats]_vars

(***************************************************************************)
(* The limiter specification: one IP sends creation requests, valid and    *)
(* invalid, while the minutes pass.                                        *)
(***************************************************************************)
LimiterBodies == {
    [title |-> <<"D","u","n","e">>, author |-> <<"A","n","n">>, year |-> 2020],
    [author |-> <<"A","n","n">>, year |-> 2020]
}

NextLimiter ==
    \/ \E body \in LimiterBodies : PostBook(body)
    \/ MinutePasses
    \/ Receive

SpecLimiter == Init /\ [][NextLimiter]_vars

(***************************************************************************)
(* The toggle specification: a second client toggles a record while the    *)
(* first toggles, creates and deletes.  toggleBookAvailability awaits      *)
(* Book.findById(id) and then book.save(); other requests are served       *)
(* between the two.                                                        *)
(***************************************************************************)
\* document.save() of a loaded document: the paths whose value differs from
\* the loaded one are written over the stored document, the others are not
SavedOver(stored, loaded, changed) ==
    LET modified == {k \in DOMAIN changed : ~Has(loaded, k) \/ changed[k] # loaded[k]}
    IN  [k \in DOMAIN stored \cup modified |->
            IF k \in modified THEN changed[k] ELSE stored[k]]

\* toggleBookAvailability up to the result of Book.findById
FindBookToToggle(id) ==
    /\ inflight.stage = "none"
    /\ writes < MaxWrites
    /\ writes' = writes + 1
    /\ inflight' = IF id \in DOMAIN books
                   THEN [stage |-> "loaded", id |-> id, book |-> books[id]]
                   ELSE [stage |-> "answered", id |-> id, response |-> NotFoundResponse]
    /\ UNCHANGED <<books, nextId, clock, req, resp, limiter, pipeline>>

\* toggleBookAvailability from book.toggleAvailability() to the response:
\* the loaded document is negated and saved; the save finds no document
\* when the record was deleted meanwhile
SaveToggledAndRespond ==
    /\ inflight.stage = "loaded"
    /\ LET changed == ToggledAvailability(inflight.book)
           saved   == Touched(Saved(changed), clock)
       IN  IF SaveErrors(changed) # {}
           THEN /\ inflight' = [stage |-> "answered", id |-> inflight.id,
                                response |-> ValidationErrorResponse(SaveErrors(changed))]
                /\ UNCHANGED <<books, clock>>
           ELSE IF inflight.id \notin DOMAIN books
           THEN /\ inflight' = [stage |-> "answered", id |-> inflight.id,
                                response |-> StoreErrorResponse]
                /\ UNCHANGED <<books, clock>>
           ELSE /\ books' = [books EXCEPT ![inflight.id] =
                                SavedOver(books[inflight.id], inflight.book, saved)]
                /\ clock' = clock + 1
                /\ inflight' = [stage |-> "answered", id |-> inflight.id,
                                book |-> inflight.book,
                                response |-> [status |-> 200, success |-> TRUE,
                                              message |-> ToggledMessage(saved),
                                              data |-> saved]]
    /\ UNCHANGED <<nextId, writes, req, resp, limiter, pipeline>>

ToggleBodies == {
    [title |-> <<"D","u","n","e">>, author |-> <<"A","n","n">>, year |-> 2020],
    [title |-> <<"T","o","m","e">>, author |-> <<"B","o","b">>, year |-> 2021,
     available |-> FALSE]
}

NextToggles ==
    \/ \E body \in ToggleBodies : CreateBook(body)
    \/ \E id \in BookIds : ToggleBookAvailability(id)
    \/ \E id \in BookIds : DeleteBook(id)
    \/ Receive
    \/ \E id \in BookIds : FindBookToToggle(id)
    \/ SaveToggledAndRespond
    \/ ReceiveList

SpecToggles == Init /\ [][NextToggles]_vars

(***************************************************************************)
(* The pages specification: two clients read pages of one list while the   *)
(* store does not change: a record is created only while no list request   *)
(* is in flight.  Two of the records have the same year.                   *)
(***************************************************************************)
PageBodies == {
    [title |-> <<"D","u","n","e">>, author |-> <<"A","n","n">>, year |-> 2021],
    [title |-> <<"T","o","m","e">>, author |-> <<"B","o","b">>, year |-> 2021],
    [title |-> <<"A","t","l","a","s">>, author |-> <<"B","o","b">>, year |-> 2020]
}

PageQueries ==
    {st @@ p @@ [limit |-> 1] :
        st \in Optional("sort", {<<"year">>, <<"-year", "createdAt">>}),
        p  \in Optional("page", {1, 2, 3})}

NextPages ==
    \/ \E body \in PageBodies : inflight = NoList /\ CreateBook(body)
    \/ \E q \in PageQueries : ListBooks(q)
    \/ Receive
    \/ \E q \in PageQueries : FindBooks(q)
    \/ CountBooksAndRespond
    \/ ReceiveList

SpecPages == Init /\ [][NextPages]_vars

(***************************************************************************)
(* The tag specification: tags are added and removed, the tag of the       *)
(* request being a text, a blank text, an empty text or a number.          *)
(***************************************************************************)
TagBodies == {
    [title |-> <<"D","u","n","e">>, author |-> <<"A","n","n">>, year |-> 2020,
     tags |-> <<<<"S","c","i">>>>],
    [title |-> <<"T","o","m","e">>, author |-> <<"B","o","b">>, year |-> 2021]
}

NumberTags == {0, 7}

NextTags ==
    \/ \E body \in TagBodies : CreateBook(body)
    \/ \E id \in BookIds, tag \in TagInputs : AddTagToBook(id, tag)
    \/ \E id \in BookIds, n \in NumberTags : AddNumberTagToBook(id, n)
    \/ \E id \in BookIds, tag \in TagInputs : RemoveTagFromBook(id, tag)
    \/ Receive

SpecTags == Init /\ [][NextTags]_vars

(***************************************************************************)
(* The answer specification: one request to /api/books/:id on its way      *)
(* through the middleware chain, step by step: validateObjectId, the       *)
(* handler wrapped by asyncWrapper, every store call it awaits, and the    *)
(* error handler.  A store call resolves or rejects.  pipeline.sent counts *)
(* the responses written for the request, pipeline.errors the errors       *)
(* passed to next.                                                         *)
(***************************************************************************)
\* new AppError(message, statusCode)
AppError(message, statusCode) ==
    [name |-> "AppError", statusCode |-> statusCode, message |-> message]

\* res.status(...).json(response): one more response is written
Sends(p, response) ==
    [p EXCEPT !.stage = "done", !.sent = @ + 1] @@ [response |-> response]

\* next(err): one more error is passed to the error handler
PassesError(p, err) ==
    [p EXCEPT !.stage = "error", !.errors = @ + 1] @@ [err |-> err]

\* errorHandler: the response for an error
ErrorHandlerResponse(err) ==
    CASE err.name = "AppError" ->
            [status |-> err.statusCode, success |-> FALSE, message |-> err.message]
      [] err.name = "ValidationError" -> ValidationErrorResponse(err.paths)
      [] err.name = "MongoNetworkError" ->
            [status |-> 500, success |-> FALSE,
             message |-> "Database connection error. Please try again later."]
      [] OTHER -> StoreErrorResponse

\* a client sends GET /api/books/:id, PATCH .../toggle-availability or
\* PATCH .../tags
Request(op, id, wellFormed, tag) ==
    /\ pipeline.stage = "none"
    /\ writes < MaxWrites
    /\ writes' = writes + 1
    /\ pipeline' = [stage |-> "route", op |-> op, id |-> id,
                    wellFormed |-> wellFormed, tag |-> tag,
                    sent |-> 0, errors |-> 0]
    /\ UNCHANGED <<books, nextId, clock, req, resp, inflight, limiter>>

\* validateObjectId, then the handler up to its first await
StartHandler ==
    /\ pipeline.stage = "route"
    /\ pipeline' =
          IF ~pipeline.wellFormed
          THEN Sends(pipeline, [status |-> 400, success |-> FALSE,
                                message |-> "Invalid resource ID format"])
          ELSE IF pipeline.op = "addTag" /\ ~TruthyStr(pipeline.tag)
          THEN PassesError(pipeline, AppError("Tag is required", 400))
          ELSE [pipeline EXCEPT !.stage = "findById"]
    /\ UNCHANGED <<books, nextId, clock, writes, req, resp, inflight, limiter>>

\* the document in memory after the handler changed it
ChangedByHandler(op, book, tag) ==
    IF op = "toggle" THEN ToggledAvailability(book) ELSE WithTag(book, tag)

\* await Book.findById(id) resolves, and the handler runs to its next await
\* or to its end: the document is changed in memory and save() validates
\* it and runs the save hook before it calls the store
FindByIdResolves ==
    /\ pipeline.stage = "findById"
    /\ pipeline' =
          IF pipeline.id \notin DOMAIN books
          THEN PassesError(pipeline, AppError("Book not found", 404))
          ELSE IF pipeline.op = "get"
          THEN Sends(pipeline, GetBookResponse(books, pipeline.id))
          ELSE LET changed == ChangedByHandler(pipeline.op, books[pipeline.id], pipeline.tag)
               IN  IF SaveErrors(changed) # {}
                   THEN PassesError(pipeline, [name |-> "ValidationError",
                                               paths |-> SaveErrors(changed)])
                   ELSE [pipeline EXCEPT !.stage = "save"]
                            @@ [book |-> books[pipeline.id], saving |-> Saved(changed)]
    /\ UNCHANGED <<books, nextId, clock, writes, req, resp, inflight, limiter>>

\* the update of book.save() resolves: the document is written and the
\* handler sends its response, or the document is gone and save() rejects
SaveSettles ==
    /\ pipeline.stage = "save"
    /\ IF pipeline.id \notin DOMAIN books
       THEN /\ pipeline' = PassesError(pipeline, [name |-> "DocumentNotFoundError"])
            /\ UNCHANGED <<books, clock>>
       ELSE /\ books' = [books EXCEPT ![pipeline.id] =
                            SavedOver(books[pipeline.id], pipeline.book,
                                      Touched(pipeline.saving, clock))]
            /\ clock' = clock + 1
            /\ pipeline' = Sends(pipeline,
                                 [status |-> 200, success |-> TRUE,
                                  message |-> IF pipeline.op = "toggle"
                                              THEN ToggledMessage(pipeline.saving)
                                              ELSE TagAddedMessage,
                                  data |-> Touched(pipeline.saving, clock)])
    /\ UNCHANGED <<nextId, writes, req, resp, inflight, limiter>>

\* a wrapper without the catch: the rejection goes nowhere
StoreCallRejectsUncaught ==
    /\ pipeline.stage \in {"findById", "save"}
    /\ pipeline' = [pipeline EXCEPT !.stage = "rejected"]
    /\ UNCHANGED <<books, nextId, clock, writes, req, resp, inflight, limiter>>

\* the store call the handler awaits rejects: the handler's promise rejects
\* and asyncWrapper's catch passes the error to next
StoreCallRejects ==
    /\ pipeline.stage \in {"findById", "save"}
    /\ pipeline' = PassesError(pipeline, [name |-> "MongoNetworkError"])
    /\ UNCHANGED <<books, nextId, clock, writes, req, resp, inflight, limiter>>

\* errorHandler(err, req, res, next)
ErrorHandler ==
    /\ pipeline.stage = "error"
    /\ pipeline' = Sends(pipeline, ErrorHandlerResponse(pipeline.err))
    /\ UNCHANGED <<books, nextId, clock, writes, req, resp, inflight, limiter>>

\* the client reads the response
ReceiveAnswer ==
    /\ pipeline.stage = "done"
    /\ pipeline' = NoPipeline
    /\ UNCHANGED <<books, nextId, clock, writes, req, resp, inflight, limiter>>

AnswerBodies == {
    [title |-> <<"D","u","n","e">>, author |-> <<"A","n","n">>, year |-> 2020,
     tags |-> <<<<"S","c","i">>>>]
}

AnswerTags == {<<"n","e","w">>, <<>>}

NextAnswers ==
    \/ \E body \in AnswerBodies : CreateBook(body)
    \/ \E id \in BookIds : DeleteBook(id)
    \/ Receive
    \/ \E op \in {"get", "toggle"}, id \in BookIds, wf \in BOOLEAN :
          Request(op, id, wf, <<>>)
    \/ \E id \in BookIds, tag \in AnswerTags : Request("addTag", id, TRUE, tag)
    \/ StartHandler
    \/ FindByIdResolves
    \/ SaveSettles
    \/ StoreCallRejects
    \/ ErrorHandler
    \/ ReceiveAnswer

SpecAnswers == Init /\ [][NextAnswers]_vars

\* the event loop runs every callback that is ready, and every store call
\* settles: it resolves, or it rejects when its time is out
SpecAnswersFair ==
    /\ SpecAnswers
    /\ WF_pipeline(StartHandler)
    /\ WF_pipeline(StoreCallRejects \/ FindByIdResolves \/ SaveSettles)
    /\ WF_pipeline(ErrorHandler)

(***************************************************************************)
(* Properties of the list endpoint.                                        *)
(***************************************************************************)
\* a list request was answered with success
ListOk == req.op = "list" /\ resp.status = 200

\* req.query as the controller reads it
EffectiveQuery == PaginationValue(req.query)

\* the identifiers of the documents in the data of the response
DataIds == {resp.data[i]._id : i \in 1..Len(resp.data)}

\* the identifiers of the stored documents that satisfy P
IdsWhere(P(_)) == {id \in DOMAIN books : P(books[id])}

\* the request supplies no parameter outside the set ks
OnlyParams(ks) == DOMAIN req.query \subseteq ks

\* s occurs in t as a substring, letter case ignored
ContainsIgnoringCase(t, s) == includes(toLowerCase(t), toLowerCase(s))

\* C1: a successful list response on effective page p >= 1 with effective
\* limit L in 1..100 over N matching records holds min(L, N - (p-1)*L) records
\* when (p-1)*L < N and none otherwise, and never more than L.
C1_PageLength ==
    ListOk =>
        LET L    == resp.limit
            p    == resp.page
            N    == Cardinality(Find(books, BuildQueryObj(EffectiveQuery)))
            skip == (p - 1) * L
        IN  /\ p >= 1
            /\ L \in 1..100
            /\ Len(resp.data) <= L
            /\ Len(resp.data) = (IF skip < N THEN Min(L, N - skip) ELSE 0)

\* a last page that is only partly filled: 3 matches, limit 2, page 2
C1_Witness ==
    /\ ListOk
    /\ resp.page = 2 /\ resp.limit = 2 /\ resp.total = 3
    /\ Len(resp.data) = 1

\* C2: pages is the ceiling of total / limit, the two flags compare page with
\* pages and with 1, and nextPage / prevPage are the neighbours or null.
C2_PaginationInfo ==
    ListOk =>
        /\ resp.pages * resp.limit >= resp.total
        /\ (resp.pages - 1) * resp.limit < resp.total
        /\ resp.hasNextPage = (resp.page < resp.pages)
        /\ resp.hasPrevPage = (resp.page > 1)
        /\ resp.nextPage = (IF resp.hasNextPage THEN resp.page + 1 ELSE NULL)
        /\ resp.prevPage = (IF resp.hasPrevPage THEN resp.page - 1 ELSE NULL)
        /\ (resp.total = 0 => resp.pages = 0 /\ ~resp.hasNextPage)

\* a middle page: both neighbours exist, and total is no multiple of limit
C2_Witness ==
    /\ ListOk
    /\ resp.total = 3 /\ resp.limit = 2 /\ resp.pages = 2
    /\ resp.page = 1 /\ resp.hasNextPage /\ resp.nextPage = 2
    /\ ~resp.hasPrevPage /\ resp.prevPage = NULL

\* the limit of the request lies outside 1..100 and nothing else is invalid
LimitOutOfRange ==
    /\ req.op = "list"
    /\ Has(req.query, "limit")
    /\ req.query.limit \notin 1..MaxListLimit
    /\ PaginationErrors(Without(req.query, "limit")) = {}

\* C3 as stated: a limit outside 1..100 is clamped, and the request succeeds.
C3_Original ==
    LimitOutOfRange =>
        /\ resp.status = 200
        /\ resp.limit = (IF req.query.limit > MaxListLimit THEN MaxListLimit ELSE 1)

\* C3 amended: a limit outside 1..100 is rejected with 400 and an error entry
\* for limit, without data; a successful response reports the limit the
\* request supplied, or the default.
C3_LimitRejected ==
    /\ LimitOutOfRange =>
          /\ resp.status = 400
          /\ ~resp.success
          /\ "limit" \in resp.errors
          /\ ~Has(resp, "data")
    /\ ListOk =>
          resp.limit = (IF Has(req.query, "limit") THEN req.query.limit ELSE DefaultLimit)

\* limit=150 answered with 400
C3_Witness ==
    /\ LimitOutOfRange
    /\ req.query.limit = 150
    /\ resp.status = 400

\* C4 as stated: the count field is the number of matching records.
C4_Original ==
    ListOk => resp.count = Cardinality(Find(books, BuildQueryObj(EffectiveQuery)))

\* C4 amended: the total field is the number of matching records on every
\* page; the count field is the number of records on the returned page.
C4_TotalAndCount ==
    ListOk =>
        /\ resp.total = Cardinality(Find(books, BuildQueryObj(EffectiveQuery)))
        /\ resp.count = Len(resp.data)

\* 3 matches and limit 2: total 3, count 2
C4_Witness ==
    /\ ListOk
    /\ resp.total = 3 /\ resp.limit = 2 /\ resp.count = 2

\* the numeric filter the claims describe: the range when a bound is supplied
\* (the exact value is then ignored), else the exact value, else nothing
SatisfiesNumeric(doc, q, field, exactKey, minKey, maxKey) ==
    IF Has(q, minKey) \/ Has(q, maxKey)
    THEN /\ Has(doc, field)
         /\ (Has(q, minKey) => doc[field] >= q[minKey])
         /\ (Has(q, maxKey) => doc[field] <= q[maxKey])
    ELSE Has(q, exactKey) => (Has(doc, field) /\ doc[field] = q[exactKey])

\* the document satisfies the filter of every supplied parameter
SatisfiesEveryFilter(doc, q) ==
    /\ (Has(q, "search") => MatchesSearch(doc, q.search))
    /\ \A k \in {"genre", "author", "language", "publisher"} :
          Has(q, k) => MatchesRegex(doc, k, q[k])
    /\ SatisfiesNumeric(doc, q, "year", "year", "minYear", "maxYear")
    /\ SatisfiesNumeric(doc, q, "rating", "rating", "minRating", "maxRating")
    /\ (Has(q, "available") => doc.available = (q.available = "true"))

\* the request leaves page, limit and sort at their defaults, so the page
\* holds the whole result
WholeResult == ListOk /\ DOMAIN req.query \cap {"page", "limit", "sort"} = {}

\* C5: the result is exactly the records that satisfy the filter of every
\* supplied parameter, and an absent parameter excludes nothing.
C5_Original ==
    (WholeResult /\ Cardinality(DOMAIN req.query) >= 2) =>
        LET AllFilters(doc) == SatisfiesEveryFilter(doc, EffectiveQuery)
        IN  DataIds = IdsWhere(AllFilters)

\* C6: with minYear and/or maxYear the result is exactly the records with
\* minYear <= year <= maxYear, an exact year being ignored; the same for
\* rating with minRating and maxRating.
C6_Original ==
    /\ (WholeResult /\ OnlyParams(YearParams)
            /\ (Has(req.query, "minYear") \/ Has(req.query, "maxYear"))) =>
          LET InRange(doc) ==
                  /\ (Has(req.query, "minYear") => doc.year >= req.query.minYear)
                  /\ (Has(req.query, "maxYear") => doc.year <= req.query.maxYear)
          IN  DataIds = IdsWhere(InRange)
    /\ (WholeResult /\ OnlyParams(RatingParams)
            /\ (Has(req.query, "minRating") \/ Has(req.query, "maxRating"))) =>
          LET InRange(doc) ==
                  /\ Has(doc, "rating")
                  /\ (Has(req.query, "minRating") => doc.rating >= req.query.minRating)
                  /\ (Has(req.query, "maxRating") => doc.rating <= req.query.maxRating)
          IN  DataIds = IdsWhere(InRange)

\* the year half of C6 alone
C6_YearRange ==
    (WholeResult /\ OnlyParams(YearParams)
        /\ (Has(req.query, "minYear") \/ Has(req.query, "maxYear"))) =>
        LET InRange(doc) ==
                /\ (Has(req.query, "minYear") => doc.year >= req.query.minYear)
                /\ (Has(req.query, "maxYear") => doc.year <= req.query.maxYear)
        IN  DataIds = IdsWhere(InRange)

\* C7: with search = s the result is exactly the records, among those passing
\* the other filters, in which s occurs as a substring of the title, the
\* author, the description or a tag, letter case ignored.
C7_Original ==
    (WholeResult /\ Has(req.query, "search")) =>
        LET s == EffectiveQuery.search
            others == Without(EffectiveQuery, "search")
            Found(doc) ==
                /\ Matches(doc, BuildQueryObj(others))
                /\ \/ ContainsIgnoringCase(doc.title, s)
                   \/ ContainsIgnoringCase(doc.author, s)
                   \/ (Has(doc, "description") /\ ContainsIgnoringCase(doc.description, s))
                   \/ \E i \in 1..Len(doc.tags) : ContainsIgnoringCase(doc.tags[i], s)
        IN  DataIds = IdsWhere(Found)

\* C8: filtering by genre g, through ?genre=g or /genre/g, returns only books
\* whose stored genre is g up to letter case.
C8_Original ==
    /\ (ListOk /\ Has(req.query, "genre")) =>
          \A i \in 1..Len(resp.data) :
              toLowerCase(resp.data[i].genre) = toLowerCase(EffectiveQuery.genre)
    /\ (req.op = "byGenre" /\ resp.status = 200) =>
          \A i \in 1..Len(resp.data) :
              toLowerCase(resp.data[i].genre) = toLowerCase(req.genre)

(***************************************************************************)
(* Properties of the tags of the stored documents.                         *)
(***************************************************************************)
\* no element twice, no blank element, no upper-case letter
CleanTagArray(tags) ==
    /\ \A i, j \in 1..Len(tags) : i # j => tags[i] # tags[j]
    /\ \A i \in 1..Len(tags) : trim(tags[i]) # <<>>
    /\ \A i \in 1..Len(tags) : toLowerCase(tags[i]) = tags[i]

\* C9: after any sequence of successful writes the tags of every stored
\* record hold no duplicate, no blank entry and only lower-case tags.
C9_Original == \A id \in DOMAIN books : CleanTagArray(books[id].tags)

\* C10: adding a tag whose trimmed, lower-cased form is already among the
\* record's tags leaves the tags unchanged, and so does removing a tag that is
\* not among them.
C10_Original ==
    [][ /\ ( /\ req'.op = "addTag" /\ resp'.status = 200
             /\ arrayIncludes(books[req'.id].tags, toLowerCase(trim(req'.tag))) )
            => books'[req'.id].tags = books[req'.id].tags
        /\ ( /\ req'.op = "removeTag" /\ resp'.status = 200
             /\ ~arrayIncludes(books[req'.id].tags, toLowerCase(trim(req'.tag)))
             /\ ~arrayIncludes(books[req'.id].tags, req'.tag) )
            => books'[req'.id].tags = books[req'.id].tags
      ]_vars

(***************************************************************************)
(* Properties of the isbn index.                                           *)
(***************************************************************************)
AlreadyExists == <<"a","l","r","e","a","d","y"," ","e","x","i","s","t","s">>

\* a record of the collection other than id holds the isbn v
HeldByAnother(coll, id, v) ==
    \E other \in DOMAIN coll :
        other # id /\ Has(coll[other], "isbn") /\ coll[other].isbn = v

\* the request of this step is a valid create or update that would give a
\* record an isbn another record holds
WouldDuplicateIsbn ==
    \/ /\ req'.op = "create"
       /\ BookCreateErrors(req'.body) = {}
       /\ Has(req'.body, "isbn")
       /\ HeldByAnother(books, nextId, trim(req'.body.isbn))
    \/ /\ req'.op = "update"
       /\ BookUpdateErrors(req'.body) = {}
       /\ req'.id \in DOMAIN books
       /\ Has(req'.body, "isbn")
       /\ HeldByAnother(books, req'.id, trim(req'.body.isbn))

\* C11: no two stored records have the same isbn; a create or an update that
\* would give a record an isbn held by another record is answered with 400,
\* success=false and a message containing 'already exists', and leaves the
\* store unchanged.
C11_IsbnUnique ==
    /\ [](\A a, b \in DOMAIN books :
            (a # b /\ Has(books[a], "isbn") /\ Has(books[b], "isbn"))
                => books[a].isbn # books[b].isbn)
    /\ [][WouldDuplicateIsbn =>
            /\ resp'.status = 400
            /\ resp'.success = FALSE
            /\ includes(resp'.message, AlreadyExists)
            /\ books' = books]_vars

\* an update that passed validation, named a stored record and was refused
\* for its isbn, which another record holds
C11_Witness ==
    /\ req.op = "update"
    /\ BookUpdateErrors(req.body) = {}
    /\ req.id \in DOMAIN books
    /\ Has(req.body, "isbn")
    /\ HeldByAnother(books, req.id, trim(req.body.isbn))
    /\ resp.status = 400

(***************************************************************************)
(* Properties of create, fetch and the stored genre.                       *)
(***************************************************************************)
\* a create request was answered with 201
CreateOk == req.op = "create" /\ resp.status = 201

\* the fields of the request body the user supplied
SuppliedFields == DOMAIN req.body \cap UpdatableFields

\* C12: creating a record and then fetching it by the returned identifier
\* yields a record whose user-supplied fields equal the supplied values.
C12_Original ==
    CreateOk =>
        LET fetched == GetBookResponse(books, resp.data._id)
        IN  /\ fetched.status = 200
            /\ \A k \in SuppliedFields :
                  Has(fetched.data, k) /\ fetched.data[k] = req.body[k]

\* the round trip of the fields the save hook leaves alone: the fetched value
\* is the supplied value, trimmed when it is a string
C12_FieldsOutsideTheSaveHook ==
    CreateOk =>
        LET fetched == GetBookResponse(books, resp.data._id)
        IN  /\ fetched.status = 200
            /\ \A k \in SuppliedFields \ {"genre", "tags"} :
                  /\ Has(fetched.data, k)
                  /\ fetched.data[k] =
                        (IF k \in StringPaths THEN trim(req.body[k]) ELSE req.body[k])

\* C13: the genre of every stored record is absent or exactly one of the
\* strings of the fixed genre set.
C13_Original ==
    \A id \in DOMAIN books :
        Has(books[id], "genre") => books[id].genre \in GenreEnum

(***************************************************************************)
(* Properties of the numeric fields.                                       *)
(***************************************************************************)
\* the body sets year, rating or pages to a value outside its bounds
BreaksBounds(body) ==
    \/ Has(body, "year") /\ body.year \notin 1000..CurrentYear
    \/ Has(body, "rating") /\ body.rating \notin 0..5
    \/ Has(body, "pages") /\ body.pages \notin 1..10000

\* C14: every stored record has 1000 <= year <= current year, a rating that
\* is absent or within 0..5 and a pages value that is absent or within
\* 1..10000; a create or update that would break one of these bounds is
\* answered with 400 and leaves the store unchanged.
C14_NumericBounds ==
    /\ [](\A id \in DOMAIN books :
            /\ Has(books[id], "year") /\ books[id].year \in 1000..CurrentYear
            /\ Has(books[id], "rating") => books[id].rating \in 0..5
            /\ Has(books[id], "pages") => books[id].pages \in 1..10000)
    /\ [][(req'.op \in {"create", "update"} /\ BreaksBounds(req'.body)) =>
            /\ resp'.status = 400
            /\ books' = books]_vars

\* an update of a stored record that would break a bound, answered with 400,
\* while the store holds a record with pages and rating at their upper bounds
C14_Witness ==
    /\ req.op = "update"
    /\ req.id \in DOMAIN books
    /\ BreaksBounds(req.body)
    /\ resp.status = 400
    /\ \E id \in DOMAIN books :
          /\ Has(books[id], "pages") /\ books[id].pages = 10000
          /\ Has(books[id], "rating") /\ books[id].rating = 5

(***************************************************************************)
(* Properties of the partial update.                                       *)
(***************************************************************************)
\* C15: a successful PUT changes only the fields present in the request body
\* and the timestamps the store maintains; every other field of the record
\* keeps its value, the record keeps its identifier, and every other record
\* is unchanged.
C15_UpdateFrame ==
    [][(req'.op = "update" /\ resp'.status = 200) =>
          LET id     == req'.id
              mayChange == DOMAIN req'.body \cup Timestamps
          IN  /\ DOMAIN books' = DOMAIN books
              /\ id \in DOMAIN books
              /\ books'[id]._id = id
              /\ DOMAIN books'[id] \ mayChange = DOMAIN books[id] \ mayChange
              /\ \A k \in DOMAIN books[id] \ mayChange :
                    books'[id][k] = books[id][k]
              /\ \A other \in DOMAIN books \ {id} :
                    books'[other] = books[other]
              /\ resp'.data = books'[id]]_vars

\* a PUT of the rating alone on one of two stored records: the record has its
\* new rating and a later lastModified, and still its title and its tags
C15_Witness ==
    /\ req.op = "update" /\ resp.status = 200
    /\ req.body = [rating |-> 4]
    /\ Cardinality(DOMAIN books) >= 2
    /\ books[req.id].rating = 4
    /\ books[req.id].lastModified > books[req.id].createdAt
    /\ books[req.id].title = <<"D","u","n","e">>
    /\ books[req.id].tags = <<<<"s","c","i">>>>

(***************************************************************************)
(* Properties of toggle-availability.                                      *)
(***************************************************************************)
\* the toggle request of this step succeeded
ToggleOk == req'.op = "toggle" /\ resp'.status = 200

\* C16: a successful toggle stores the negation of the available flag and
\* returns the record with the new value, a second toggle restores the
\* original value, and no user-supplied field other than available changes.
C16_Original ==
    [][ToggleOk =>
          LET id == req'.id
          IN  /\ books'[id].available = ~books[id].available
              /\ resp'.data.available = books'[id].available
              /\ SaveErrors(ToggledAvailability(books'[id])) = {} =>
                    Saved(ToggledAvailability(books'[id])).available
                        = books[id].available
              /\ \A k \in UpdatableFields \ {"available"} :
                    /\ Has(books'[id], k) = Has(books[id], k)
                    /\ Has(books[id], k) => books'[id][k] = books[id][k]]_vars

\* the part of C16 about the flag alone: negated, returned, restored by a
\* second toggle
C16_FlagNegated ==
    [][ToggleOk =>
          LET id == req'.id
          IN  /\ books'[id].available = ~books[id].available
              /\ resp'.data.available = books'[id].available
              /\ SaveErrors(ToggledAvailability(books'[id])) = {} =>
                    Saved(ToggledAvailability(books'[id])).available
                        = books[id].available]_vars

(***************************************************************************)
(* Properties of delete and of unknown identifiers.                        *)
(***************************************************************************)
\* the identifiers the store handed out whose record has been deleted
Deleted == (1..(nextId - 1)) \ DOMAIN books

\* the delete request of this step succeeded: its record is gone, every other
\* record is unchanged, and no deleted record comes back
DeleteRemovesOneRecord ==
    /\ (req'.op = "delete" /\ resp'.status = 200) =>
          /\ req'.id \in DOMAIN books
          /\ DOMAIN books' = DOMAIN books \ {req'.id}
          /\ \A other \in DOMAIN books' : books'[other] = books[other]
    /\ \A id \in Deleted : id \notin DOMAIN books'

\* the body or tag of the request of this step passes the checks that
\* precede the lookup of the record: validateBookUpdate for PUT, the
\* `if (!tag)` of the two tag handlers
PassesChecksBeforeLookup ==
    /\ req'.op = "update" => BookUpdateErrors(req'.body) = {}
    /\ req'.op \in {"addTag", "removeTag"} => TruthyStr(req'.tag)

\* C17 as stated: after a successful DELETE the record is no longer in the
\* store, every later GET, PUT or DELETE of that identifier returns 404, and
\* all other records are unchanged.
C17_Original ==
    [][ /\ DeleteRemovesOneRecord
        /\ (req'.op \in {"get", "update", "delete"} /\ req'.id \in Deleted) =>
              resp'.status = 404 ]_vars

\* C17 amended: as stated, for every later GET and DELETE, and for every
\* later PUT whose body passes validation; a PUT whose body fails validation
\* is answered 400 before the record is looked up.
C17_DeletedStaysGone ==
    [][ /\ DeleteRemovesOneRecord
        /\ (req'.op \in {"get", "delete"} /\ req'.id \in Deleted) =>
              resp'.status = 404
        /\ (req'.op = "update" /\ req'.id \in Deleted) =>
              resp'.status = (IF BookUpdateErrors(req'.body) = {} THEN 404 ELSE 400)
        /\ (req'.op \in {"get", "update", "delete"} /\ req'.id \in Deleted) =>
              books' = books ]_vars

\* a valid PUT on the identifier of a deleted record, answered 404, while
\* another record is still stored
C17_Witness ==
    /\ req.op = "update"
    /\ BookUpdateErrors(req.body) = {}
    /\ req.id \in Deleted
    /\ resp.status = 404
    /\ DOMAIN books # {}

\* the requests that name one record
ByIdOps == {"get", "update", "delete", "toggle", "addTag", "removeTag"}

\* the answer of this step is 404, success=false, 'Book not found'
AnswersNotFound ==
    /\ resp'.status = 404
    /\ resp'.success = FALSE
    /\ resp'.message = "Book not found"

\* C18 as stated: GET, PUT, DELETE, toggle-availability, add-tag and
\* remove-tag on a well-formed identifier that names no stored record each
\* answer 404 with success=false and 'Book not found', and leave the store
\* unchanged.
C18_Original ==
    [][(req'.op \in ByIdOps /\ req'.id \notin DOMAIN books) =>
          (AnswersNotFound /\ books' = books)]_vars

\* C18 amended: as stated, for a PUT whose body passes validation and for a
\* tag request that carries a non-empty tag; a PUT whose body fails
\* validation and a tag request without tag are answered 400 whether or not
\* the identifier names a record.  The store is unchanged in either case.
C18_NotFound ==
    [][(req'.op \in ByIdOps /\ req'.id \notin DOMAIN books) =>
          /\ books' = books
          /\ IF PassesChecksBeforeLookup THEN AnswersNotFound
             ELSE resp'.status = 400 /\ resp'.success = FALSE]_vars

\* an add-tag request with a tag, on an identifier the store never handed out
C18_Witness ==
    /\ req.op = "addTag"
    /\ TruthyStr(req.tag)
    /\ req.id >= nextId
    /\ resp = NotFoundResponse

(***************************************************************************)
(* Properties of the validation of the list query.                         *)
(***************************************************************************)
\* the text of the parameter k of the request is no number
NotANumber(k) == Has(req.query, k) /\ ~IsNumberText(req.query[k])

\* the parameter k of the request is a whole number outside lo..hi
OutOfRange(k, lo, hi) ==
    /\ Has(req.query, k)
    /\ IsIntegerText(req.query[k])
    /\ IntegerValue(req.query[k]) \notin lo..hi

\* the parameters of the request that are malformed or out of range
Violated ==
      {k \in {"page", "limit", "year", "rating"} : NotANumber(k)}
    \cup {k \in {"page"} : Has(req.query, k) /\ IsIntegerText(req.query[k])
                              /\ IntegerValue(req.query[k]) < 1}
    \cup {k \in {"limit"} : OutOfRange(k, 1, 100)}
    \cup {k \in {"year"} : OutOfRange(k, 1000, CurrentYear)}
    \cup {k \in {"rating"} : OutOfRange(k, 0, 5)}

\* C19: a list request with malformed or out-of-range query parameters is
\* answered with 400 and no data, whatever the store holds, and the error
\* list has an entry for every violated parameter, not only the first one.
C19_EveryViolationReported ==
    (req.op = "listText" /\ Violated # {}) =>
        /\ resp.status = 400
        /\ resp.success = FALSE
        /\ DOMAIN resp \cap {"data", "total", "count"} = {}
        /\ Violated \subseteq resp.errors

\* four parameters violated at once, each of them reported, over a store
\* that holds records
C19_Witness ==
    /\ req.op = "listText"
    /\ Violated = {"page", "limit", "year", "rating"}
    /\ resp.status = 400
    /\ Violated \subseteq resp.errors
    /\ DOMAIN books # {}

(***************************************************************************)
(* Properties of a list that runs beside creates and deletes.              *)
(***************************************************************************)
\* C20: every successful list response is consistent with one single store
\* state: its data length is min(limit, total - skip), or 0 when
\* skip >= total, for its own total.
C20_Original ==
    (inflight.stage = "answered" /\ inflight.response.status = 200) =>
        LET r    == inflight.response
            skip == (r.page - 1) * r.limit
        IN  /\ r.count = Len(r.data)
            /\ Len(r.data) = (IF skip < r.total THEN Min(r.limit, r.total - skip) ELSE 0)

(***************************************************************************)
(* Properties of the by-genre and by-author endpoints.                     *)
(***************************************************************************)
\* the fixed sort of the route the request went to
SiblingSort == IF req.op = "byAuthor" THEN <<"-year">> ELSE <<"title">>

\* the pages and limits a parameter can stand for: the clamped number when
\* its text begins with a number, and else every value inside the clamp
EffectivePages ==
    IF Has(req.query, "page") /\ parseInt(req.query.page) = NaN
    THEN 1..(MaxBooks + 1)
    ELSE {Max(1, ParsedParam(req.query, "page", DefaultPage)[1])}
EffectiveLimits ==
    IF Has(req.query, "limit") /\ parseInt(req.query.limit) = NaN
    THEN 1..MaxGenreLimit
    ELSE {Min(MaxGenreLimit, Max(1, ParsedParam(req.query, "limit", DefaultLimit)[1]))}

\* C21: every by-genre and by-author request, whatever the text of its page
\* and limit, is answered with the page of the matching records that the
\* effective page max(1, page) and the effective limit clamp(limit, 1, 50)
\* select, and never with more than 50 records.
C21_Original ==
    req.op \in {"byGenreText", "byAuthor"} =>
        /\ resp.status = 200
        /\ Len(resp.data) <= MaxGenreLimit
        /\ \E p \in EffectivePages, l \in EffectiveLimits :
           \E order \in SortedOrders(Find(books, req.field :> req.segment), SiblingSort) :
               resp.data = SkipLimit(order, (p - 1) * l, l)

(***************************************************************************)
(* Properties of the statistics.                                           *)
(***************************************************************************)
\* the stored records whose available flag is v
WithFlag(v) == {id \in DOMAIN books : Has(books[id], "available") /\ books[id].available = v}

\* C22: the statistics report totalBooks as the number of stored records,
\* availableBooks as the number whose flag is true and checkedOutBooks as
\* the number whose flag is false; the two add up to totalBooks after every
\* sequence of writes, and all three are 0 over the empty store.
C22_StatsCounts ==
    /\ req.op = "stats" =>
          /\ resp.status = 200
          /\ resp.data.general.totalBooks = Cardinality(DOMAIN books)
          /\ resp.data.general.availableBooks = Cardinality(WithFlag(TRUE))
          /\ resp.data.general.checkedOutBooks = Cardinality(WithFlag(FALSE))
          /\ resp.data.general.availableBooks + resp.data.general.checkedOutBooks
                = resp.data.general.totalBooks
          /\ (DOMAIN books = {} =>
                /\ resp.data.general.totalBooks = 0
                /\ resp.data.general.availableBooks = 0
                /\ resp.data.general.checkedOutBooks = 0)
    /\ Cardinality(WithFlag(TRUE)) + Cardinality(WithFlag(FALSE)) = Cardinality(DOMAIN books)

\* the statistics were read over a store that holds available and checked-out
\* records after a write changed a flag
C22_Witness ==
    /\ req.op = "stats"
    /\ writes > 0
    /\ resp.data.general.availableBooks > 0
    /\ resp.data.general.checkedOutBooks > 0
    /\ clock > nextId

(***************************************************************************)
(* Properties of the defaults of a created record.                         *)
(***************************************************************************)
\* the record a successful create stored
Created == books[resp.data._id]

\* C23 as stated: a record created without addedBy is stored with addedBy
\* "system", and a record created without available is stored available.
C23_Original ==
    CreateOk =>
        /\ ~Has(req.body, "addedBy") => Created.addedBy = <<"s","y","s","t","e","m">>
        /\ ~Has(req.body, "available") => Created.available = TRUE

\* C23: a record created through POST /api/books without addedBy is stored
\* with addedBy "api_user", a supplied addedBy is stored trimmed; a record
\* created without available is stored with available true, and a supplied
\* available is stored as supplied.
C23_CreateDefaults ==
    CreateOk =>
        /\ Created.addedBy = (IF Has(req.body, "addedBy") THEN trim(req.body.addedBy)
                              ELSE <<"a","p","i","_","u","s","e","r">>)
        /\ Created.available = (IF Has(req.body, "available") THEN req.body.available
                                ELSE TRUE)

\* a record was created from a body with neither addedBy nor available
C23_Witness ==
    /\ CreateOk
    /\ ~Has(req.body, "addedBy")
    /\ ~Has(req.body, "available")
    /\ Created.addedBy = <<"a","p","i","_","u","s","e","r">>
    /\ Created.available

(***************************************************************************)
(* Properties of the rate limit on creation.                               *)
(***************************************************************************)
\* C24: once an IP has made 5 creation requests inside a one-minute window,
\* a further creation request in that window creates no record: it is not
\* answered 201.
C24_Original ==
    (req.op = "create" /\ limiter.posts > CreateMax) => resp.status # 201

(***************************************************************************)
(* Properties of two toggles of one record.                                *)
(***************************************************************************)
\* both clients toggled the same record with success, and nothing else
\* wrote to a record
TwoToggles ==
    /\ req.op = "toggle"
    /\ resp.status = 200
    /\ inflight.stage = "answered"
    /\ inflight.response.status = 200
    /\ inflight.id = req.id
    /\ writes = 2

\* the flag before the two toggles: the one the second client loaded when it
\* loaded before the first client wrote, and else the one the first client
\* negated
InitialFlag ==
    IF inflight.book.lastModified < resp.data.lastModified
    THEN inflight.book.available
    ELSE ~resp.data.available

\* C25: after two successful toggles of one record, with no other write,
\* the stored flag is the initial one again: no toggle is lost.
C25_Original ==
    TwoToggles => books[req.id].available = InitialFlag

(***************************************************************************)
(* Properties of the pages of one list.                                    *)
(***************************************************************************)
\* the identifiers on a page
IdsOn(data) == {data[i]._id : i \in 1..Len(data)}

\* the two clients hold two different pages of the same list: same filter,
\* sort and limit, read from the same store
TwoPages ==
    /\ ListOk
    /\ inflight.stage = "answered"
    /\ inflight.response.status = 200
    /\ Without(EffectiveQuery, "page") = Without(PaginationValue(inflight.query), "page")
    /\ resp.page # inflight.response.page

\* C26: against a store that does not change, no record appears on two
\* pages of one list, and when the list has two pages, the two pages
\* together hold every matching record, also when records tie on the sort
\* key.
C26_Original ==
    TwoPages =>
        /\ IdsOn(resp.data) \cap IdsOn(inflight.response.data) = {}
        /\ (resp.pages = 2 /\ {resp.page, inflight.response.page} = {1, 2}) =>
              IdsOn(resp.data) \cup IdsOn(inflight.response.data) = DOMAIN books

(***************************************************************************)
(* Properties of the tag requests.                                         *)
(***************************************************************************)
\* the tag of the request as addTag and removeTag clean it
CleanTagOfRequest == toLowerCase(trim(req.tag))

\* C27: after a remove-tag request is answered 200, the stored tags of the
\* record do not contain the trimmed, lowercased tag, whatever earlier
\* writes produced the tags.
C27_Original ==
    (req.op = "removeTag" /\ resp.status = 200) =>
        ~arrayIncludes(books[req.id].tags, CleanTagOfRequest)

\* C28: an add-tag request answered 200 leaves the trimmed, lowercased tag
\* among the stored tags of the record; a tag that is blank after trimming,
\* and a tag that is no string, is not answered 200.
C28_Original ==
    /\ (req.op = "addTag" /\ resp.status = 200) =>
          arrayIncludes(books[req.id].tags, CleanTagOfRequest)
    /\ (req.op = "addTag" /\ trim(req.tag) = <<>>) => resp.status # 200
    /\ req.op = "addNumberTag" => resp.status # 200

(***************************************************************************)
(* Properties of a numeric filter whose value is 0.                        *)
(***************************************************************************)
\* the stored records with a rating of at most n, and of exactly n
RatedAtMost(n) == {id \in DOMAIN books : Has(books[id], "rating") /\ books[id].rating <= n}
RatedExactly(n) == {id \in DOMAIN books : Has(books[id], "rating") /\ books[id].rating = n}

\* C29: a list request whose only parameter is rating=0 returns exactly the
\* records whose rating is 0, and one whose only parameter is maxRating=0
\* returns exactly the records whose rating is at most 0.
C29_Original ==
    /\ (ListOk /\ DOMAIN req.query = {"rating"} /\ req.query.rating = 0) =>
          DataIds = RatedExactly(0)
    /\ (ListOk /\ DOMAIN req.query = {"maxRating"} /\ req.query.maxRating = 0) =>
          DataIds = RatedAtMost(0)

(***************************************************************************)
(* Properties of the answer to a request.                                  *)
(***************************************************************************)
\* a request is in the middleware chain
InPipeline == pipeline.stage # "none"

\* at most one response and at most one error; none before the end, and
\* one at the end: an error response when an error was passed, a success
\* response when the handler ran to its end
AnsweredAtMostOnce ==
    InPipeline =>
        /\ pipeline.sent <= 1
        /\ pipeline.errors <= 1
        /\ pipeline.stage # "done" => pipeline.sent = 0
        /\ pipeline.stage = "done" =>
              /\ pipeline.sent = 1
              /\ pipeline.errors = 1 => ~pipeline.response.success
              /\ (pipeline.errors = 0 /\ pipeline.wellFormed) => pipeline.response.success

\* C30: every request to a book endpoint is answered exactly once: one
\* success response from the handler, or one error passed to the error
\* handler and one response with success = false from there; never two
\* responses, and never none, also when a store call rejects or the record
\* is not found.
C30_AnsweredOnce ==
    /\ []AnsweredAtMostOnce
    /\ InPipeline ~> (pipeline.stage = "done" /\ pipeline.sent = 1)

\* a store call rejected, and the request was answered once, by the error
\* handler
C30_Witness ==
    /\ pipeline.stage = "done"
    /\ pipeline.sent = 1
    /\ pipeline.errors = 1
    /\ pipeline.err.name = "MongoNetworkError"
    /\ pipeline.response.status = 500
    /\ ~pipeline.response.success

====
